---- MODULE Spec2Model ----
(***************************************************************************)
(* A model of the document rewrite pipeline of htmlwordpress:              *)
(*   - css_optimizer.rs      CssOptimizer (selector matching, tree-shaking) *)
(*   - resource_optimizer.rs external CSS/JS consolidation and rewriting   *)
(*   - optimizer.rs          the scanner passes over the document          *)
(* Text is modelled by TLA+ strings; a character is a string of length 1.  *)
(* Positions are 0-based as in Rust, and -1 stands for None.               *)
(***************************************************************************)
EXTENDS Integers, Sequences, FiniteSets, TLC

VARIABLES
    \* CssOptimizer::remove_unused_css
    css,             \* the argument `css`
    used_selectors,  \* CssOptimizer.used_selectors
    remaining,       \* the local `remaining`
    result,          \* the local `result`
    kept_rules,      \* the selectors counted by `kept_rules`, in order
    removed_rules,   \* the selectors counted by `removed_rules`, in order
    css_pc,          \* "scan" inside the while loop, "done" after it, "panic"
    css_run,         \* 1, and 2 when remove_unused_css runs on its own output
    \* resource_optimizer::extract_critical_css
    crit_css,        \* the argument `full_css`
    crit_rules,      \* what full_css.split('}') has still to yield
    crit_text,       \* the local `critical`
    crit_pc,         \* "loop" inside the for loop, "done" after the return
    \* handlers::optimize, resource_optimizer::optimize_external_resources
    doc,             \* the elements of the request's document, in document order
    options,         \* req.options (minify_css, minify_js)
    html,            \* result.html
    css_links,       \* extract_css_links(html)
    js_sources,      \* extract_js_sources(html)
    res_i,           \* the position of the running for loop in its list
    css_outcomes,    \* per CSS link, the arm taken: "skipped", "failed", "ok"
    js_outcomes,     \* per JS source, the arm taken
    css_files,       \* Vec<OptimizedCssFile>
    js_files,        \* Vec<OptimizedJsFile>
    resources,       \* the OptimizedResources returned (<<>> before the return)
    response,        \* the handler's outcome: "pending", "ok"
    res_pc,          \* "css", "js", "combine", "rewrite", "done"
    \* optimizer::minify_html
    m_html,          \* the argument `html` (chars)
    m_i,             \* the local `i`
    m_result,        \* the local `result`
    in_pre,
    in_script,
    in_style,
    in_comment,
    last_was_space,
    m_pc,            \* "scan" inside the while loop, "done" after it
    \* optimizer::optimize_and_treeshake_css
    ts_html,         \* the argument `html` (chars)
    ts_i,            \* the local `i`
    ts_result,       \* the local `result`
    ts_count,        \* the local `count`
    ts_pc,           \* "scan" in the while loop, "css" inside remove_unused_css, "done"
    \* optimizer::optimize_html
    opt_html,        \* the argument `html`
    opt_url,         \* the argument `url`
    opt_options,     \* the argument `options`
    optimized,       \* the local `optimized`
    optimizations,   \* the local `optimizations`
    opt_pc,          \* the step of optimize_html that runs next, "done" after the return
    \* seo_optimizer::SeoOptimizer::optimize
    seo_html,        \* the local `optimized`
    seo_changes,     \* the local `changes`
    \* handlers::optimize, handlers::optimize_bulk
    api_key,         \* AppState.api_key, None (<<>>) when API_KEY is not set
    auth_header,     \* the request's Authorization header, None without one
    endpoint,        \* "optimize" or "optimize_bulk"
    pages,           \* the requests of the body: one for optimize, req.pages for bulk
    h_i,             \* optimize_bulk: the page the loop is at (from 1)
    results,         \* optimize_bulk: the local `results`
    images,          \* optimize: the local `images`
    downloads,       \* the image URLs handed to download_image, in order
    h_result,        \* optimize: the size fields of the local `result`, None before
    h_pc             \* the step of the handler that runs next

crit_vars == <<crit_css, crit_rules, crit_text, crit_pc>>

css_vars == <<css, used_selectors, remaining, result, kept_rules, removed_rules, css_pc>>

res_vars == <<doc, options, html, css_links, js_sources, res_i, css_outcomes, js_outcomes,
              css_files, js_files, resources, response, res_pc>>

min_vars == <<m_html, m_i, m_result, in_pre, in_script, in_style, in_comment,
              last_was_space, m_pc>>

ts_vars == <<ts_html, ts_i, ts_result, ts_count, ts_pc>>

opt_vars == <<opt_html, opt_url, opt_options, optimized, optimizations, opt_pc,
              seo_html, seo_changes>>

h_vars == <<api_key, auth_header, endpoint, pages, h_i, results, images, downloads,
           h_result, h_pc>>

vars == <<css_vars, css_run, crit_vars, res_vars, min_vars, ts_vars, opt_vars, h_vars>>

\* the frame of each component's steps
OnlyCss == UNCHANGED <<crit_vars, css_run, res_vars, min_vars, ts_vars, opt_vars, h_vars>>
OnlyRes == UNCHANGED <<crit_vars, css_run, css_vars, min_vars, ts_vars, opt_vars, h_vars>>
OnlyMin == UNCHANGED <<crit_vars, css_run, css_vars, res_vars, ts_vars, opt_vars, h_vars>>
OnlyTs == UNCHANGED <<crit_vars, css_run, res_vars, min_vars, opt_vars, h_vars>>
OnlyOpt == UNCHANGED <<crit_vars, css_run, css_vars, res_vars, min_vars, ts_vars, h_vars>>

\* extract_critical_css not running
CritIdle ==
    /\ crit_css = ""
    /\ crit_rules = <<>>
    /\ crit_text = ""
    /\ crit_pc = "done"

\* optimize_html not running
OptIdle ==
    /\ opt_html = ""
    /\ opt_url = ""
    /\ opt_options = [minify_css |-> FALSE, minify_html |-> FALSE, defer_js |-> FALSE,
                      lazy_images |-> FALSE]
    /\ optimized = ""
    /\ optimizations = <<>>
    /\ opt_pc = "done"
    /\ seo_html = ""
    /\ seo_changes = <<>>

\* no request is being handled
HandlerIdle ==
    /\ api_key = <<>>
    /\ auth_header = <<>>
    /\ endpoint = "optimize"
    /\ pages = <<>>
    /\ h_i = 0
    /\ results = <<>>
    /\ images = <<>>
    /\ downloads = <<>>
    /\ h_result = <<>>
    /\ h_pc = "done"

(***************************************************************************)
(* Bounds of the model.                                                    *)
(***************************************************************************)
MaxRules == 3
MaxTags == 3
MaxParts == 3

(***************************************************************************)
(* std: characters and strings                                             *)
(***************************************************************************)
Min(S) == CHOOSE x \in S : \A y \in S : x <= y
Max(S) == CHOOSE x \in S : \A y \in S : x >= y

CharAt(s, i) == SubSeq(s, i + 1, i + 1)
Chars(s) == {SubSeq(s, i, i) : i \in 1..Len(s)}
\* Rust s[a..b], s[a..], s[..b] (ASCII text: byte and char offsets agree)
Slice(s, a, b) == SubSeq(s, a + 1, b)
SliceFrom(s, a) == SubSeq(s, a + 1, Len(s))
SliceTo(s, b) == SubSeq(s, 1, b)

LowerLetters == "abcdefghijklmnopqrstuvwxyz"
UpperLetters == "ABCDEFGHIJKLMNOPQRSTUVWXYZ"
Digits == "0123456789"
to_lowercase_map == [c \in Chars(UpperLetters) |->
    LET i == CHOOSE k \in 1..26 : SubSeq(UpperLetters, k, k) = c
    IN  SubSeq(LowerLetters, i, i)]
\* the characters of the modelled alphabet that take more than one byte in UTF-8
TwoByteChars == {"é"}
ThreeByteChars == {"→"}

AlphabeticChars == Chars(LowerLetters) \cup Chars(UpperLetters) \cup TwoByteChars
AlphanumericChars == AlphabeticChars \cup Chars(Digits)
WhitespaceChars == {" ", "\n", "\t", "\r", "\f"}

is_alphabetic(c) == c \in AlphabeticChars
is_alphanumeric(c) == c \in AlphanumericChars
is_whitespace(c) == c \in WhitespaceChars

char_to_lowercase(c) == IF c \in DOMAIN to_lowercase_map THEN to_lowercase_map[c] ELSE c

RECURSIVE to_lowercase(_)
to_lowercase(s) ==
    IF Len(s) <= 1 THEN char_to_lowercase(s)
    ELSE to_lowercase(SubSeq(s, 1, Len(s) \div 2))
         \o to_lowercase(SubSeq(s, Len(s) \div 2 + 1, Len(s)))

starts_with(s, p) == Len(p) <= Len(s) /\ SubSeq(s, 1, Len(p)) = p

\* str::find: the offset of the first occurrence of p in s, -1 for None
find(s, p) ==
    LET hits == {i \in 0..(Len(s) - Len(p)) : Slice(s, i, i + Len(p)) = p}
    IN  IF hits = {} THEN -1 ELSE Min(hits)

\* str::rfind: the offset of the last occurrence of p in s, -1 for None
rfind(s, p) ==
    LET hits == {i \in 0..(Len(s) - Len(p)) : Slice(s, i, i + Len(p)) = p}
    IN  IF hits = {} THEN -1 ELSE Max(hits)

contains(s, p) == find(s, p) >= 0

\* str::trim
\* the position of the first character from i on (the last one up to i)
\* that is not whitespace
RECURSIVE first_solid(_, _)
first_solid(s, i) ==
    IF i > Len(s) \/ ~is_whitespace(SubSeq(s, i, i)) THEN i ELSE first_solid(s, i + 1)

RECURSIVE last_solid(_, _)
last_solid(s, i) ==
    IF i < 1 \/ ~is_whitespace(SubSeq(s, i, i)) THEN i ELSE last_solid(s, i - 1)

trim(s) == SubSeq(s, first_solid(s, 1), last_solid(s, Len(s)))

\* str::split(pred): the pieces between the characters of `seps`
RECURSIVE split(_, _)
split(s, seps) ==
    LET cut == {i \in 1..Len(s) : SubSeq(s, i, i) \in seps}
    IN  IF cut = {} THEN <<s>>
        ELSE <<SubSeq(s, 1, Min(cut) - 1)>> \o split(SubSeq(s, Min(cut) + 1, Len(s)), seps)

\* str::split(pred).next(): the piece before the first character outside `keep`
first_run(s, keep) ==
    LET cut == {i \in 1..Len(s) : SubSeq(s, i, i) \notin keep}
    IN  IF cut = {} THEN s ELSE SubSeq(s, 1, Min(cut) - 1)

\* str::split(pred).next(): the piece before the first character of `seps`
first_piece(s, seps) ==
    LET cut == {i \in 1..Len(s) : SubSeq(s, i, i) \in seps}
    IN  IF cut = {} THEN s ELSE SubSeq(s, 1, Min(cut) - 1)

non_empty(pieces) == SelectSeq(pieces, LAMBDA p : p # "")

\* [&str]::join
RECURSIVE join(_, _)
join(pieces, sep) ==
    IF pieces = <<>> THEN ""
    ELSE IF Len(pieces) = 1 THEN pieces[1]
    ELSE pieces[1] \o sep \o join(Tail(pieces), sep)

\* str::split_whitespace
split_whitespace(s) == non_empty(split(s, WhitespaceChars))

RECURSIVE map_trim(_)
map_trim(pieces) ==
    IF pieces = <<>> THEN <<>> ELSE <<trim(pieces[1])>> \o map_trim(Tail(pieces))

\* str::len: the length in bytes
byte_len(s) ==
    Len(s) + Cardinality({k \in 1..Len(s) : SubSeq(s, k, k) \in TwoByteChars})
           + 2 * Cardinality({k \in 1..Len(s) : SubSeq(s, k, k) \in ThreeByteChars})

\* str::is_char_boundary
is_char_boundary(s, n) == \E k \in 0..Len(s) : byte_len(SubSeq(s, 1, k)) = n

\* &s[..n] with n a byte index on a character boundary
byte_slice_to(s, n) == SubSeq(s, 1, CHOOSE k \in 0..Len(s) : byte_len(SubSeq(s, 1, k)) = n)

Range(f) == {f[i] : i \in DOMAIN f}

(***************************************************************************)
(* css_optimizer.rs                                                        *)
(***************************************************************************)
whitelist_patterns ==
    {"wp-", "admin-bar", "elementor-", "e-", "et_", "et-", "divi", "fl-", "vc_",
     "wpb_", "avia-", "av-", "wpcf7", "gform", "gfield", "woocommerce", "wc-",
     "active", "open", "show", "hidden", "visible", "hover", "focus", "selected",
     "disabled", "loading"}

pseudo_exceptions ==
    {"::", ":hover", ":focus", ":active", ":before", ":after", ":nth", ":first",
     ":last", ":not"}

NameChars == AlphanumericChars \cup {"-", "_"}

\* the names following each `marker` in a token: token.split(marker).skip(1)
RECURSIVE marked_names(_, _)
marked_names(pieces, marker) ==
    IF pieces = <<>> THEN <<>>
    ELSE LET name == first_run(pieces[1], NameChars)
         IN  (IF name # "" THEN <<marker \o name>> ELSE <<>>)
             \o marked_names(Tail(pieces), marker)

token_parts(token) ==
    LET element == first_piece(token, {".", "#", "[", ":"})
    IN  marked_names(Tail(split(token, {"."})), ".")
        \o marked_names(Tail(split(token, {"#"})), "#")
        \o (IF element # "" /\ is_alphabetic(SubSeq(element, 1, 1))
            THEN <<to_lowercase(element)>> ELSE <<>>)

RECURSIVE tokens_parts(_)
tokens_parts(tokens) ==
    IF tokens = <<>> THEN <<>>
    ELSE LET token == trim(tokens[1])
         IN  (IF token = "" THEN <<>> ELSE token_parts(token))
             \o tokens_parts(Tail(tokens))

parse_selector_parts(selector) ==
    tokens_parts(split(selector, WhitespaceChars \cup {">", "+", "~"}))

\* the element name is_selector_used probes after the parts
leading_tag(selector_trimmed) ==
    IF selector_trimmed # "" /\ is_alphabetic(SubSeq(selector_trimmed, 1, 1))
    THEN {to_lowercase(first_run(selector_trimmed, AlphanumericChars))}
    ELSE {}

\* is_selector_used without the pseudo-class / pseudo-element exception
is_selector_used_no_pseudo(used, selector) ==
    LET selector_trimmed == trim(selector)
        selector_lower == to_lowercase(selector_trimmed)
    IN  IF \E pattern \in whitelist_patterns : contains(selector_lower, pattern) THEN TRUE
        ELSE IF starts_with(selector_lower, "@") THEN TRUE
        ELSE IF \E part \in Range(parse_selector_parts(selector_trimmed)) : part \in used
             THEN TRUE
        ELSE \E tag \in leading_tag(selector_trimmed) : tag \in used

is_selector_used(used, selector) ==
    LET selector_trimmed == trim(selector)
        selector_lower == to_lowercase(selector_trimmed)
    IN  IF \E pattern \in whitelist_patterns : contains(selector_lower, pattern) THEN TRUE
        ELSE IF \E p \in pseudo_exceptions : contains(selector_lower, p) THEN TRUE
        ELSE IF starts_with(selector_lower, "@") THEN TRUE
        ELSE IF \E part \in Range(parse_selector_parts(selector_trimmed)) : part \in used
             THEN TRUE
        ELSE \E tag \in leading_tag(selector_trimmed) : tag \in used

\* minify_rule_body without .filter(|prop| !prop.is_empty())
minify_rule_body_unfiltered(body) ==
    join(map_trim(split(body, {";"})), ";") \o ";"

\* fn minify_rule_body
minify_rule_body(body) ==
    join(non_empty(map_trim(split(body, {";"}))), ";") \o ";"

\* the brace depth after each character of css, as extract_at_rule counts it
RECURSIVE brace_count(_, _)
brace_count(s, n) ==
    IF n = 0 THEN 0
    ELSE brace_count(s, n - 1)
         + (IF SubSeq(s, n, n) = "{" THEN 1 ELSE IF SubSeq(s, n, n) = "}" THEN -1 ELSE 0)

\* extract_at_rule: the end position (0 when the loop never breaks)
at_rule_end_pos(s) ==
    LET closes == {n \in 1..Len(s) :
                      /\ SubSeq(s, n, n) = "}"
                      /\ brace_count(s, n) = 0
                      /\ \E k \in 1..n : SubSeq(s, k, k) = "{"}
    IN  IF closes = {} THEN 0 ELSE Min(closes)

\* extract_at_rule: css[..end_pos] panics when the character index end_pos,
\* taken as a byte index, is not on a character boundary
at_rule_panics(s) == at_rule_end_pos(s) > 0 /\ ~is_char_boundary(s, at_rule_end_pos(s))

\* extract_at_rule: "" stands for None (Some is never empty)
extract_at_rule(s) == byte_slice_to(s, at_rule_end_pos(s))

\* the rule the loop body looks at
selector_end == find(remaining, "{")
selector == trim(SliceTo(remaining, selector_end))
rule_end == find(SliceFrom(remaining, selector_end), "}")
full_rule == SliceTo(remaining, selector_end + rule_end + 1)
rule_body == Slice(remaining, selector_end + 1, selector_end + rule_end)
minified_rule ==
    join(split_whitespace(selector), " ") \o "{" \o minify_rule_body(rule_body) \o "}"

takes_at_rule ==
    /\ selector_end >= 0
    /\ starts_with(selector, "@")
    /\ at_rule_end_pos(remaining) > 0

\* while !remaining.is_empty() fails
CssLoopExit ==
    /\ OnlyCss
    /\ css_pc = "scan"
    /\ remaining = ""
    /\ css_pc' = "done"
    /\ UNCHANGED <<css, used_selectors, remaining, result, kept_rules, removed_rules>>

\* the slice in extract_at_rule panics
CssPanic ==
    /\ OnlyCss
    /\ css_pc = "scan"
    /\ remaining # ""
    /\ takes_at_rule
    /\ at_rule_panics(remaining)
    /\ css_pc' = "panic"
    /\ UNCHANGED <<css, used_selectors, remaining, result, kept_rules, removed_rules>>

CssAtRule ==
    /\ OnlyCss
    /\ css_pc = "scan"
    /\ remaining # ""
    /\ takes_at_rule
    /\ ~at_rule_panics(remaining)
    /\ result' = result \o extract_at_rule(remaining)
    /\ remaining' = SliceFrom(remaining, Len(extract_at_rule(remaining)))
    /\ kept_rules' = Append(kept_rules, selector)
    /\ UNCHANGED <<css, used_selectors, removed_rules, css_pc>>

CssKeepRule ==
    /\ OnlyCss
    /\ css_pc = "scan"
    /\ remaining # ""
    /\ selector_end >= 0
    /\ ~takes_at_rule
    /\ rule_end >= 0
    /\ is_selector_used(used_selectors, selector)
    /\ result' = result \o minified_rule
    /\ kept_rules' = Append(kept_rules, selector)
    /\ remaining' = SliceFrom(remaining, Len(full_rule))
    /\ UNCHANGED <<css, used_selectors, removed_rules, css_pc>>

CssDropRule ==
    /\ OnlyCss
    /\ css_pc = "scan"
    /\ remaining # ""
    /\ selector_end >= 0
    /\ ~takes_at_rule
    /\ rule_end >= 0
    /\ ~is_selector_used(used_selectors, selector)
    /\ removed_rules' = Append(removed_rules, selector)
    /\ remaining' = SliceFrom(remaining, Len(full_rule))
    /\ UNCHANGED <<css, used_selectors, result, kept_rules, css_pc>>

\* "Malformed CSS, keep remaining as-is"
CssMalformed ==
    /\ OnlyCss
    /\ css_pc = "scan"
    /\ remaining # ""
    /\ selector_end >= 0
    /\ ~takes_at_rule
    /\ rule_end < 0
    /\ result' = result \o remaining
    /\ css_pc' = "done"
    /\ UNCHANGED <<css, used_selectors, remaining, kept_rules, removed_rules>>

\* "No more rules, append remaining content"
CssNoMoreRules ==
    /\ OnlyCss
    /\ css_pc = "scan"
    /\ remaining # ""
    /\ selector_end < 0
    /\ result' = result \o trim(remaining)
    /\ css_pc' = "done"
    /\ UNCHANGED <<css, used_selectors, remaining, kept_rules, removed_rules>>

remove_unused_css ==
    \/ CssLoopExit
    \/ CssAtRule
    \/ CssKeepRule
    \/ CssDropRule
    \/ CssMalformed
    \/ CssNoMoreRules
    \/ CssPanic

(***************************************************************************)
(* resource_optimizer.rs                                                   *)
(***************************************************************************)
None == <<>>
Some(x) == <<x>>
Err == [ok |-> FALSE]
Ok(file) == [ok |-> TRUE, file |-> file]

css_size_limit == 500000
js_size_limit == 1000000
max_size == 14 * 1024

skip_hosts ==
    {"fonts.googleapis.com", "fonts.gstatic.com", "cdnjs.cloudflare.com",
     "cdn.jsdelivr.net", "unpkg.com", "ajax.googleapis.com", "code.jquery.com",
     "stackpath.bootstrapcdn.com", "maxcdn.bootstrapcdn.com"}

\* should_skip_external with an empty host list
should_skip_external_never(url) == FALSE

should_skip_external(url) == \E host \in skip_hosts : contains(to_lowercase(url), host)

urls_of(elements) == [k \in 1..Len(elements) |-> elements[k].url]

\* Selector "link[rel='stylesheet']" over the parsed document, then the filters
extract_css_links(d) ==
    urls_of(SelectSeq(d, LAMBDA e :
        /\ e.name = "link" /\ e.rel = "stylesheet"
        /\ ~starts_with(e.url, "data:") /\ e.url # "" /\ ~contains(e.url, "/htmlwp/")))

\* Selector "script[src]" over the parsed document, then the filters
extract_js_sources(d) ==
    urls_of(SelectSeq(d, LAMBDA e :
        e.name = "script" /\ ~starts_with(e.url, "data:") /\ e.url # ""))

\* DefaultHasher over the url only; the digest is left symbolic
generate_filename(url, extension) == "hash(" \o url \o ")." \o extension

\* optimize_css_file naming the file by a hash of what was fetched
optimize_css_file_by_content(url, download, minify) ==
    IF download.status # "ok" THEN Err
    ELSE IF download.original_size > css_size_limit THEN Err
    ELSE LET optimized_size ==
                 IF minify THEN download.minified_size ELSE download.original_size
         IN  IF optimized_size >= download.original_size THEN Err
             ELSE Ok([original_url |-> url,
                      filename |-> generate_filename(download.content, "css"),
                      content |-> download.content,
                      original_size |-> download.original_size,
                      optimized_size |-> optimized_size])

\* optimize_css_file on the outcome `download` of download_resource(full_url)
optimize_css_file(url, download, minify) ==
    IF download.status # "ok" THEN Err
    ELSE IF download.original_size > css_size_limit THEN Err
    ELSE LET optimized_size ==
                 IF minify THEN download.minified_size ELSE download.original_size
         IN  IF optimized_size >= download.original_size THEN Err
             ELSE Ok([original_url |-> url,
                      filename |-> generate_filename(url, "css"),
                      content |-> download.content,
                      original_size |-> download.original_size,
                      optimized_size |-> optimized_size])

\* basic_js_minify keeps the original unless the minifier's output is smaller
basic_js_minify_size(download) ==
    IF download.minified_size < download.original_size
    THEN download.minified_size ELSE download.original_size

\* optimize_js_file without the test `optimized_size >= original_size`
optimize_js_file_lenient(url, download, minify) ==
    IF download.status # "ok" THEN Err
    ELSE IF download.original_size > js_size_limit THEN Err
    ELSE LET optimized_size ==
                 IF minify THEN basic_js_minify_size(download) ELSE download.original_size
         IN  Ok([original_url |-> url,
                 filename |-> generate_filename(url, "js"),
                 content |-> download.content,
                 original_size |-> download.original_size,
                 optimized_size |-> optimized_size])

optimize_js_file(url, download, minify) ==
    IF download.status # "ok" THEN Err
    ELSE IF download.original_size > js_size_limit THEN Err
    ELSE LET optimized_size ==
                 IF minify THEN basic_js_minify_size(download) ELSE download.original_size
         IN  IF optimized_size >= download.original_size THEN Err
             ELSE Ok([original_url |-> url,
                      filename |-> generate_filename(url, "js"),
                      content |-> download.content,
                      original_size |-> download.original_size,
                      optimized_size |-> optimized_size])

fold_markers ==
    {"@font-face", ":root", "html", "body", "header", "nav", ".hero", "#hero",
     ".header", "#header", ".site-", "@media"}

RECURSIVE critical_rules(_, _)
critical_rules(rules, critical) ==
    IF rules = <<>> \/ Len(critical) >= max_size THEN critical
    ELSE LET rule == trim(rules[1])
         IN  IF rule # "" /\ \E marker \in fold_markers : contains(rule, marker)
             THEN critical_rules(Tail(rules), critical \o rule \o "}" \o "\n")
             ELSE critical_rules(Tail(rules), critical)

extract_critical_css(full_css) == critical_rules(split(full_css, {"}"}), "")

original_urls(files) == [k \in 1..Len(files) |-> files[k].original_url]

contents_of(files) == [k \in 1..Len(files) |-> files[k].content]

RECURSIVE sum_of(_, _)
sum_of(files, field) ==
    IF files = <<>> THEN 0 ELSE files[1][field] + sum_of(Tail(files), field)

\* total_*_original.saturating_sub(total_*_optimized), in bytes
savings(files) ==
    IF sum_of(files, "original_size") >= sum_of(files, "optimized_size")
    THEN sum_of(files, "original_size") - sum_of(files, "optimized_size") ELSE 0

combined_css_of(files) ==
    IF files # <<>> THEN Some(join(contents_of(files), "\n")) ELSE None

\* combined_js_of joining with the separator of the CSS
combined_js_of_newline(files) ==
    IF files # <<>> THEN Some(join(contents_of(files), "\n")) ELSE None

combined_js_of(files) ==
    IF files # <<>> THEN Some(join(contents_of(files), ";\n")) ELSE None

critical_css_of(files) ==
    IF join(contents_of(files), "\n") # ""
    THEN Some(extract_critical_css(join(contents_of(files), "\n"))) ELSE None

combined_link ==
    "<link rel=\"stylesheet\" href=\"./styles.min.css\" id=\"htmlwp-combined-css\" "
    \o "media=\"print\" onload=\"this.media='all'\">"
combined_script == "<script src=\"./scripts.min.js\" id=\"htmlwp-combined-js\"></script>"

\* String::replace_range(start..end, with)
replace_range(s, start, end, with) == SliceTo(s, start) \o with \o SliceFrom(s, end)

\* the lookup shared by find_link_tag_start and find_script_tag_start
find_tag_start(h, url, attr, opening) ==
    LET lower_html == to_lowercase(h)
        lower_url == to_lowercase(url)
        patterns == <<attr \o "=\"" \o lower_url \o "\"",
                      attr \o "='" \o lower_url \o "'",
                      attr \o "=" \o lower_url>>
        hit(k) == LET pos == find(lower_html, patterns[k])
                  IN  IF pos < 0 THEN -1 ELSE rfind(SliceTo(lower_html, pos), opening)
    IN  IF hit(1) >= 0 THEN hit(1) ELSE IF hit(2) >= 0 THEN hit(2) ELSE hit(3)

find_link_tag_start(h, url) == find_tag_start(h, url, "href", "<link")
find_script_tag_start(h, url) == find_tag_start(h, url, "src", "<script")

\* the for loop over resources.css_files
RECURSIVE rewrite_css(_, _, _)
rewrite_css(h, files, combined_css_added) ==
    IF files = <<>> THEN h
    ELSE LET start == find_link_tag_start(h, files[1].original_url)
             end == find(SliceFrom(h, start), ">")
         IN  IF start < 0 \/ end < 0 THEN rewrite_css(h, Tail(files), combined_css_added)
             ELSE IF ~combined_css_added
             THEN rewrite_css(replace_range(h, start, start + end + 1, combined_link),
                              Tail(files), TRUE)
             ELSE rewrite_css(replace_range(h, start, start + end + 1, ""),
                              Tail(files), TRUE)

\* the for loop over resources.js_files
RECURSIVE rewrite_js(_, _, _)
rewrite_js(h, files, combined_js_added) ==
    IF files = <<>> THEN h
    ELSE LET start == find_script_tag_start(h, files[1].original_url)
             close_pos == find(SliceFrom(h, start), "</script>")
             end == find(SliceFrom(h, start), "/>")
             tag_end == IF close_pos >= 0 THEN start + close_pos + 9 ELSE start + end + 2
         IN  IF start < 0 \/ (close_pos < 0 /\ end < 0)
             THEN rewrite_js(h, Tail(files), combined_js_added)
             ELSE IF ~combined_js_added
             THEN rewrite_js(replace_range(h, start, tag_end, combined_script),
                             Tail(files), TRUE)
             ELSE rewrite_js(replace_range(h, start, tag_end, ""), Tail(files), TRUE)

inject_critical_css(h, critical_css) ==
    IF critical_css # None /\ critical_css[1] # "" /\ find(to_lowercase(h), "</head>") >= 0
    THEN LET pos == find(to_lowercase(h), "</head>")
         IN  replace_range(h, pos, pos,
                 "<style id=\"critical-css\">" \o critical_css[1] \o "</style>\n")
    ELSE h

rewrite_html_with_optimized_resources(h, res) ==
    LET h1 == IF res.combined_css # None /\ res.css_files # <<>>
              THEN rewrite_css(h, res.css_files, FALSE) ELSE h
        h2 == IF res.combined_js # None /\ res.js_files # <<>>
              THEN rewrite_js(h1, res.js_files, FALSE) ELSE h1
    IN  inject_critical_css(h2, res.critical_css)

(***************************************************************************)
(* The network: what download_resource can return for a url.  The body a   *)
(* server holds for a url is fixed; whether and how the fetch fails, and   *)
(* what the minifier gains, is open.                                       *)
(***************************************************************************)
minified_body(url) ==
    CASE url = "/a.css" -> "body{m:0}"
      [] url = "/b.css" -> ".x{c:red}"
      [] url = "/j.js" -> "j()"
      [] url = "/k.js" -> "k()"
      [] OTHER -> ""

Downloads(url, limit) ==
    LET body == minified_body(url)
    IN  {[status |-> "send_error", original_size |-> 0, minified_size |-> 0, content |-> ""],
         [status |-> "http_error", original_size |-> 0, minified_size |-> 0, content |-> ""],
         [status |-> "ok", original_size |-> limit + 1, minified_size |-> Len(body),
          content |-> body],
         [status |-> "ok", original_size |-> limit, minified_size |-> Len(body),
          content |-> body],
         [status |-> "ok", original_size |-> Len(body), minified_size |-> Len(body),
          content |-> body],
         [status |-> "ok", original_size |-> Len(body) + 3, minified_size |-> Len(body),
          content |-> body]}

(***************************************************************************)
(* optimize_external_resources and the handler around it                   *)
(***************************************************************************)
\* for url in css_links: should_skip_external -> continue
ResCssSkip ==
    /\ OnlyRes
    /\ res_pc = "css"
    /\ res_i <= Len(css_links)
    /\ should_skip_external(css_links[res_i])
    /\ css_outcomes' = Append(css_outcomes, "skipped")
    /\ res_i' = res_i + 1
    /\ UNCHANGED <<doc, options, html, css_links, js_sources, js_outcomes, css_files,
                   js_files, resources, response, res_pc>>

\* ResCssFile with the error propagated (`?`) instead of matched
ResCssFile_propagates ==
    /\ OnlyRes
    /\ res_pc = "css"
    /\ res_i <= Len(css_links)
    /\ ~should_skip_external(css_links[res_i])
    /\ \E download \in Downloads(css_links[res_i], css_size_limit) :
         LET attempt == optimize_css_file(css_links[res_i], download, options.minify_css)
         IN  IF attempt.ok
             THEN /\ css_files' = Append(css_files, attempt.file)
                  /\ css_outcomes' = Append(css_outcomes, "ok")
                  /\ UNCHANGED <<response, res_pc>>
             ELSE /\ css_files' = css_files
                  /\ css_outcomes' = Append(css_outcomes, "failed")
                  /\ response' = "error"
                  /\ res_pc' = "done"
    /\ res_i' = res_i + 1
    /\ UNCHANGED <<doc, options, html, css_links, js_sources, js_outcomes, js_files,
                   resources>>

\* for url in css_links: match optimize_css_file(..).await
ResCssFile ==
    /\ OnlyRes
    /\ res_pc = "css"
    /\ res_i <= Len(css_links)
    /\ ~should_skip_external(css_links[res_i])
    /\ \E download \in Downloads(css_links[res_i], css_size_limit) :
         LET attempt == optimize_css_file(css_links[res_i], download, options.minify_css)
         IN  IF attempt.ok
             THEN /\ css_files' = Append(css_files, attempt.file)
                  /\ css_outcomes' = Append(css_outcomes, "ok")
             ELSE /\ css_files' = css_files
                  /\ css_outcomes' = Append(css_outcomes, "failed")
    /\ res_i' = res_i + 1
    /\ UNCHANGED <<doc, options, html, css_links, js_sources, js_outcomes, js_files,
                   resources, response, res_pc>>

\* the CSS loop is over: let js_sources = extract_js_sources(html)
ResCssDone ==
    /\ OnlyRes
    /\ res_pc = "css"
    /\ res_i > Len(css_links)
    /\ res_pc' = "js"
    /\ res_i' = 1
    /\ UNCHANGED <<doc, options, html, css_links, js_sources, css_outcomes, js_outcomes,
                   css_files, js_files, resources, response>>

ResJsSkip ==
    /\ OnlyRes
    /\ res_pc = "js"
    /\ res_i <= Len(js_sources)
    /\ should_skip_external(js_sources[res_i])
    /\ js_outcomes' = Append(js_outcomes, "skipped")
    /\ res_i' = res_i + 1
    /\ UNCHANGED <<doc, options, html, css_links, js_sources, css_outcomes, css_files,
                   js_files, resources, response, res_pc>>

ResJsFile ==
    /\ OnlyRes
    /\ res_pc = "js"
    /\ res_i <= Len(js_sources)
    /\ ~should_skip_external(js_sources[res_i])
    /\ \E download \in Downloads(js_sources[res_i], js_size_limit) :
         LET attempt == optimize_js_file(js_sources[res_i], download, options.minify_js)
         IN  IF attempt.ok
             THEN /\ js_files' = Append(js_files, attempt.file)
                  /\ js_outcomes' = Append(js_outcomes, "ok")
             ELSE /\ js_files' = js_files
                  /\ js_outcomes' = Append(js_outcomes, "failed")
    /\ res_i' = res_i + 1
    /\ UNCHANGED <<doc, options, html, css_links, js_sources, css_outcomes, css_files,
                   resources, response, res_pc>>

\* the JS loop is over: combine and return OptimizedResources
ResCombine ==
    /\ OnlyRes
    /\ res_pc = "js"
    /\ res_i > Len(js_sources)
    /\ resources' = Some([css_files |-> css_files,
                          js_files |-> js_files,
                          critical_css |-> critical_css_of(css_files),
                          combined_css |-> combined_css_of(css_files),
                          combined_js |-> combined_js_of(js_files),
                          combined_css_filename |-> "styles.min.css",
                          combined_js_filename |-> "scripts.min.js",
                          total_css_savings |-> savings(css_files),
                          total_js_savings |-> savings(js_files)])
    /\ res_pc' = "rewrite"
    /\ UNCHANGED <<doc, options, html, css_links, js_sources, res_i, css_outcomes,
                   js_outcomes, css_files, js_files, response>>

\* handlers::optimize after optimize_external_resources returned
HandlerRewrite ==
    /\ UNCHANGED <<crit_vars, css_run, css_vars, min_vars, ts_vars, opt_vars>>
    /\ UNCHANGED <<h_result, api_key, auth_header, endpoint, pages, h_i, results, images, downloads>>
    /\ h_pc' = "done"
    /\ res_pc = "rewrite"
    /\ html' = IF resources[1].css_files # <<>> \/ resources[1].js_files # <<>>
               THEN rewrite_html_with_optimized_resources(html, resources[1])
               ELSE html
    /\ response' = "ok"
    /\ res_pc' = "done"
    /\ UNCHANGED <<doc, options, css_links, js_sources, res_i, css_outcomes, js_outcomes,
                   css_files, js_files, resources>>

optimize_external_resources ==
    \/ ResCssSkip
    \/ ResCssFile
    \/ ResCssDone
    \/ ResJsSkip
    \/ ResJsFile
    \/ ResCombine

(***************************************************************************)
(* optimizer.rs: minify_html                                               *)
(***************************************************************************)
m_len == Len(m_html)

\* chars[i..i+n] collected, when the guard in front of it let it be read
m_at(n) == Slice(m_html, m_i, Min({m_i + n, m_len}))

\* let remaining: String = chars[i..].iter().take(10).collect(), lowercased
remaining_lower == to_lowercase(m_at(10))

\* the if / else-if chain over the tag starts
flag_after(flag, opening, closing, earlier) ==
    IF \E p \in earlier : starts_with(remaining_lower, p) THEN flag
    ELSE IF starts_with(remaining_lower, opening) THEN TRUE
    ELSE IF starts_with(remaining_lower, closing) THEN FALSE
    ELSE flag

in_pre_after == flag_after(in_pre, "<pre", "</pre", {})
in_script_after == flag_after(in_script, "<script", "</script", {"<pre", "</pre"})
in_style_after ==
    flag_after(in_style, "<style", "</style", {"<pre", "</pre", "<script", "</script"})

\* "Check for comment start"
MinCommentStart ==
    /\ OnlyMin
    /\ m_pc = "scan"
    /\ m_i < m_len
    /\ m_i + 3 < m_len /\ m_at(4) = "<!--"
    /\ in_comment' = TRUE
    /\ m_i' = m_i + 4
    /\ UNCHANGED <<m_html, m_result, in_pre, in_script, in_style, last_was_space, m_pc>>

\* "Check for comment end": the closing sequence is reached
MinCommentEnd ==
    /\ OnlyMin
    /\ m_pc = "scan"
    /\ m_i < m_len
    /\ ~(m_i + 3 < m_len /\ m_at(4) = "<!--")
    /\ in_comment
    /\ m_i + 2 < m_len /\ m_at(3) = "-->"
    /\ in_comment' = FALSE
    /\ m_i' = m_i + 3
    /\ UNCHANGED <<m_html, m_result, in_pre, in_script, in_style, last_was_space, m_pc>>

\* "Check for comment end": a character of the comment
MinCommentSkip ==
    /\ OnlyMin
    /\ m_pc = "scan"
    /\ m_i < m_len
    /\ ~(m_i + 3 < m_len /\ m_at(4) = "<!--")
    /\ in_comment
    /\ ~(m_i + 2 < m_len /\ m_at(3) = "-->")
    /\ m_i' = m_i + 1
    /\ UNCHANGED <<m_html, m_result, in_pre, in_script, in_style, in_comment,
                   last_was_space, m_pc>>

\* "Check for tag starts", then the character chars[i]
MinChar ==
    /\ OnlyMin
    /\ m_pc = "scan"
    /\ m_i < m_len
    /\ ~(m_i + 3 < m_len /\ m_at(4) = "<!--")
    /\ ~in_comment
    /\ in_pre' = in_pre_after
    /\ in_script' = in_script_after
    /\ in_style' = in_style_after
    /\ IF in_pre_after \/ in_script_after \/ in_style_after
       THEN /\ m_result' = m_result \o CharAt(m_html, m_i)
            /\ last_was_space' = FALSE
       ELSE IF is_whitespace(CharAt(m_html, m_i))
       THEN /\ m_result' = IF last_was_space THEN m_result ELSE m_result \o " "
            /\ last_was_space' = TRUE
       ELSE /\ m_result' = m_result \o CharAt(m_html, m_i)
            /\ last_was_space' = FALSE
    /\ m_i' = m_i + 1
    /\ UNCHANGED <<m_html, in_comment, m_pc>>

\* while i < len fails: return result
MinReturn ==
    /\ OnlyMin
    /\ m_pc = "scan"
    /\ m_i >= m_len
    /\ m_pc' = "done"
    /\ UNCHANGED <<m_html, m_i, m_result, in_pre, in_script, in_style, in_comment,
                   last_was_space>>

minify_html ==
    \/ MinCommentStart
    \/ MinCommentEnd
    \/ MinCommentSkip
    \/ MinChar
    \/ MinReturn

\* the locals of minify_html at its entry, for the argument h
MinEntry(h) ==
    /\ m_html = h
    /\ m_i = 0
    /\ m_result = ""
    /\ in_pre = FALSE
    /\ in_script = FALSE
    /\ in_style = FALSE
    /\ in_comment = FALSE
    /\ last_was_space = FALSE

MinIdle == MinEntry("") /\ m_pc = "done"

(***************************************************************************)
(* optimizer.rs: optimize_and_treeshake_css                                *)
(***************************************************************************)
large_block_limit == 100000

ts_len == Len(ts_html)

\* if i + 5 < len { chars[i..i+6] lowercased == "<style" }
at_style_tag ==
    ts_i + 5 < ts_len /\ to_lowercase(Slice(ts_html, ts_i, ts_i + 6)) = "<style"

\* "Find end of opening tag": i after the loop over chars[i] != '>' and the step past it
open_tag_end ==
    LET gt == find(SliceFrom(ts_html, ts_i), ">")
    IN  IF gt < 0 THEN ts_len ELSE ts_i + gt + 1

open_tag == Slice(ts_html, ts_i, open_tag_end)

\* "Find </style>": i after `while i + 7 < len`, started at css_start
\* (the loop stops at the first closing tag at or after i, or where i + 7 = len)
closing_search(i) ==
    LET hits == {j \in i..(ts_len - 8) :
                    /\ Slice(ts_html, j, j + 2) = "</"
                    /\ to_lowercase(Slice(ts_html, j, j + 8)) = "</style>"}
    IN  IF hits # {} THEN Min(hits)
        ELSE IF i + 7 < ts_len THEN ts_len - 7 ELSE i

css_start == open_tag_end
css_end == closing_search(css_start)
css_content == Slice(ts_html, css_start, css_end)

\* result.push(chars[i]); i += 1
TsCopyChar ==
    /\ OnlyTs
    /\ ts_pc = "scan"
    /\ ts_i < ts_len
    /\ ~at_style_tag
    /\ ts_result' = ts_result \o CharAt(ts_html, ts_i)
    /\ ts_i' = ts_i + 1
    /\ UNCHANGED <<ts_html, ts_count, ts_pc, css_vars>>

\* TsStyleBlock without the size test: every block is handed to remove_unused_css
TsStyleBlock_unbounded ==
    /\ OnlyTs
    /\ ts_pc = "scan"
    /\ ts_i < ts_len
    /\ at_style_tag
    /\ ts_result' = ts_result \o open_tag
    /\ ts_i' = css_end
    /\ ts_pc' = "css"
    /\ css' = css_content
    /\ remaining' = css_content
    /\ result' = ""
    /\ kept_rules' = <<>>
    /\ removed_rules' = <<>>
    /\ css_pc' = "scan"
    /\ UNCHANGED used_selectors
    /\ UNCHANGED <<ts_html, ts_count>>

\* a <style block: the opening tag is copied and its CSS is handed to
\* remove_unused_css, or copied as it is when it is larger than the limit
TsStyleBlock ==
    /\ OnlyTs
    /\ ts_pc = "scan"
    /\ ts_i < ts_len
    /\ at_style_tag
    /\ IF byte_len(css_content) > large_block_limit
       THEN /\ ts_result' = ts_result \o open_tag \o css_content \o "</style>"
            /\ ts_i' = css_end + 8
            /\ UNCHANGED <<ts_pc, css_vars>>
       ELSE /\ ts_result' = ts_result \o open_tag
            /\ ts_i' = css_end
            /\ ts_pc' = "css"
            /\ css' = css_content
            /\ remaining' = css_content
            /\ result' = ""
            /\ kept_rules' = <<>>
            /\ removed_rules' = <<>>
            /\ css_pc' = "scan"
            /\ UNCHANGED used_selectors
    /\ UNCHANGED <<ts_html, ts_count>>

\* Ok(optimized): push it, count it, "Add closing tag", "skip </style>"
TsStyleReturn ==
    /\ OnlyTs
    /\ ts_pc = "css"
    /\ css_pc = "done"
    /\ ts_result' = ts_result \o result \o "</style>"
    /\ ts_count' = ts_count + 1
    /\ ts_i' = ts_i + 8
    /\ ts_pc' = "scan"
    /\ UNCHANGED <<ts_html, css_vars>>

\* while i < len fails: *html = result
TsReturn ==
    /\ OnlyTs
    /\ ts_pc = "scan"
    /\ ts_i >= ts_len
    /\ ts_pc' = "done"
    /\ UNCHANGED <<ts_html, ts_i, ts_result, ts_count, css_vars>>

optimize_and_treeshake_css ==
    \/ TsCopyChar
    \/ TsStyleBlock
    \/ TsStyleReturn
    \/ TsReturn

TsIdle ==
    /\ ts_html = ""
    /\ ts_i = 0
    /\ ts_result = ""
    /\ ts_count = 0
    /\ ts_pc = "done"

(***************************************************************************)
(* The documents the consolidation is run on: the markup items in document *)
(* order, each with what the HTML parser reports for it.                   *)
(***************************************************************************)
Element(text, name, rel, url) == [text |-> text, name |-> name, rel |-> rel, url |-> url]

DocElements ==
    {Element("<link rel=\"stylesheet\" href=\"/a.css\">", "link", "stylesheet", "/a.css"),
     Element("<link rel=\"stylesheet\" href=\"/b.css\">", "link", "stylesheet", "/b.css"),
     Element("<link rel=\"stylesheet\" href=\"//unpkg.com/u.css\">", "link", "stylesheet",
             "//unpkg.com/u.css"),
     Element("<a href=\"/a.css\">", "a", "", "/a.css"),
     Element("<script src=\"/j.js\"></script>", "script", "", "/j.js"),
     Element("<script src=\"/k.js\"></script>", "script", "", "/k.js"),
     Element("<script src=\"//unpkg.com/q.js\"></script>", "script", "", "//unpkg.com/q.js"),
     Element("</head>", "/head", "", "")}

RECURSIVE Docs(_)
Docs(n) ==
    IF n = 0 THEN {<<>>}
    ELSE Docs(n - 1) \cup {Append(d, e) : d \in Docs(n - 1), e \in DocElements}

RECURSIVE Render(_)
Render(d) == IF d = <<>> THEN "" ELSE d[1].text \o Render(Tail(d))

\* the tree-shaker at rest
CssIdle ==
    /\ css = ""
    /\ used_selectors = {}
    /\ remaining = ""
    /\ result = ""
    /\ kept_rules = <<>>
    /\ removed_rules = <<>>
    /\ css_pc = "done"

ResInit ==
    /\ CssIdle
    /\ MinIdle
    /\ TsIdle
    /\ doc \in Docs(MaxTags)
    /\ options \in [minify_css : BOOLEAN, minify_js : BOOLEAN]
    /\ html = Render(doc)
    /\ css_links = extract_css_links(doc)
    /\ js_sources = extract_js_sources(doc)
    /\ res_i = 1
    /\ css_outcomes = <<>>
    /\ js_outcomes = <<>>
    /\ css_files = <<>>
    /\ js_files = <<>>
    /\ resources = None
    /\ response = "pending"
    /\ res_pc = "css"
    /\ OptIdle
    /\ HandlerIdle
    /\ css_run = 1
    /\ CritIdle

\* the resource component at rest
ResIdle ==
    /\ doc = <<>>
    /\ options = [minify_css |-> TRUE, minify_js |-> TRUE]
    /\ html = ""
    /\ css_links = <<>>
    /\ js_sources = <<>>
    /\ res_i = 1
    /\ css_outcomes = <<>>
    /\ js_outcomes = <<>>
    /\ css_files = <<>>
    /\ js_files = <<>>
    /\ resources = None
    /\ response = "pending"
    /\ res_pc = "done"

ResNext == optimize_external_resources \/ HandlerRewrite

SpecRes == ResInit /\ [][ResNext]_vars

(***************************************************************************)
(* The stylesheets and usage indexes the tree-shaker is run on.            *)
(***************************************************************************)
CssSegments ==
    {".hero{c:r}", ".unused{c:b}", "@media s{.a{c:d}}", "/*c*/", ".x:hover{c:d}",
     ".wp-x{c:d}", ".menu li,.nav{c:d}", " p >.b ::after { c : d ;; }", "li,h2{}",
     ".u{c", "@f{éé}"}

RECURSIVE StyleSheets(_)
StyleSheets(n) ==
    IF n = 0 THEN {""}
    ELSE StyleSheets(n - 1) \cup {s \o t : s \in StyleSheets(n - 1), t \in CssSegments}

UsageAtoms == {".hero", "li"}

CssInit ==
    /\ css \in StyleSheets(MaxRules)
    /\ used_selectors \in SUBSET UsageAtoms
    /\ remaining = css
    /\ result = ""
    /\ kept_rules = <<>>
    /\ removed_rules = <<>>
    /\ css_pc = "scan"
    /\ ResIdle
    /\ MinIdle
    /\ TsIdle
    /\ OptIdle
    /\ HandlerIdle
    /\ css_run = 1
    /\ CritIdle

CssNext == remove_unused_css

SpecCss == CssInit /\ [][CssNext]_vars

\* a second call of remove_unused_css, with the same usage index, on the
\* text the first call returned
CssSecondCall ==
    /\ UNCHANGED <<crit_vars, res_vars, min_vars, ts_vars, opt_vars, h_vars>>
    /\ css_pc = "done"
    /\ css_run = 1
    /\ CritIdle
    /\ css_run' = 2
    /\ css' = result
    /\ remaining' = result
    /\ result' = ""
    /\ kept_rules' = <<>>
    /\ removed_rules' = <<>>
    /\ css_pc' = "scan"
    /\ UNCHANGED used_selectors

CssTwiceNext == remove_unused_css \/ CssSecondCall

SpecCssTwice == CssInit /\ [][CssTwiceNext]_vars

(***************************************************************************)
(* The documents the scanner passes are run on.                            *)
(***************************************************************************)
MinSegments ==
    {"<script> a  b </script>", "<script><!--x--></script>", "<pre> a\n\n b </pre>",
     "<style> .a { } </style>", "<!-- c -->", " a  b ", "<!--b", "<p>  x </p>",
     "<script>s(\"<!--\")</script>"}

RECURSIVE Texts(_, _)
Texts(segments, n) ==
    IF n = 0 THEN {""}
    ELSE Texts(segments, n - 1) \cup {s \o t : s \in Texts(segments, n - 1), t \in segments}

MinInit ==
    /\ \E h \in Texts(MinSegments, MaxParts) : MinEntry(h)
    /\ m_pc = "scan"
    /\ CssIdle
    /\ ResIdle
    /\ TsIdle
    /\ OptIdle
    /\ HandlerIdle
    /\ css_run = 1
    /\ CritIdle

MinNext == minify_html

SpecMinify == MinInit /\ [][MinNext]_vars

\* a piece of markup with what the HTML parser reports for it
Piece(text, tags, classes) == [text |-> text, tags |-> tags, classes |-> classes]

ShakePieces ==
    {Piece("<style>.hero{c:r}.unused{c:b}</style>", {"style"}, {}),
     Piece("<STYLE type=x>@media s{.a{c:d}}x</STYLE>", {"style"}, {}),
     Piece("<style>.u{c</style>", {"style"}, {}),
     Piece("<p class=\"hero\">t</p>", {"p"}, {"hero"}),
     Piece("<style>.a{b}", {"style"}, {}),
     Piece("<style>li{c:d}.unused{c:b}", {"style"}, {}),
     Piece("<style", {}, {}),
     Piece("<style>@f{éé}</style>", {"style"}, {})}

RECURSIVE Pieces(_)
Pieces(n) ==
    IF n = 0 THEN {<<>>}
    ELSE Pieces(n - 1) \cup {Append(d, e) : d \in Pieces(n - 1), e \in ShakePieces}

\* CssOptimizer::extract_used_selectors over the parsed document
extract_used_selectors(d) ==
    {"." \o c : c \in UNION {d[k].classes : k \in 1..Len(d)}}
    \cup UNION {d[k].tags : k \in 1..Len(d)}
    \cup {"html", "head", "body"}

ShakeInit ==
    /\ \E d \in Pieces(MaxParts) :
           /\ ts_html = Render(d)
           /\ used_selectors = extract_used_selectors(d)
    /\ ts_i = 0
    /\ ts_result = ""
    /\ ts_count = 0
    /\ ts_pc = "scan"
    /\ css = ""
    /\ remaining = ""
    /\ result = ""
    /\ kept_rules = <<>>
    /\ removed_rules = <<>>
    /\ css_pc = "done"
    /\ ResIdle
    /\ MinIdle
    /\ OptIdle
    /\ HandlerIdle
    /\ css_run = 1
    /\ CritIdle

ShakeNext == optimize_and_treeshake_css \/ remove_unused_css

SpecShake == ShakeInit /\ [][ShakeNext]_vars

(***************************************************************************)
(* optimizer.rs: the tag rewriting passes, as functions of the document    *)
(***************************************************************************)
\* str::replacen(from, to, 1)
replacen(s, from, to) ==
    IF find(s, from) < 0 THEN s
    ELSE SliceTo(s, find(s, from)) \o to \o SliceFrom(s, find(s, from) + Len(from))

\* where the tag that starts at position p of h ends: past the next '>', or
\* at the end of the text
tag_end(h, p) ==
    IF find(SliceFrom(h, p), ">") < 0 THEN Len(h) ELSE p + find(SliceFrom(h, p), ">") + 1

\* lazy_img_tag without the test for an existing attribute
lazy_img_tag_unchecked(img_tag) ==
    [tag |-> replacen(img_tag, "<img", "<img loading=\"lazy\""), count |-> 1]

lazy_img_tag(img_tag) ==
    IF ~contains(img_tag, "loading=") /\ ~contains(img_tag, "fetchpriority=")
    THEN [tag |-> replacen(img_tag, "<img", "<img loading=\"lazy\""), count |-> 1]
    ELSE [tag |-> img_tag, count |-> 0]

defer_script_tag(script_tag) ==
    IF /\ ~contains(to_lowercase(script_tag), "defer")
       /\ ~contains(to_lowercase(script_tag), "async")
       /\ contains(to_lowercase(script_tag), "src=")
    THEN [tag |-> replacen(script_tag, "<script", "<script defer"), count |-> 1]
    ELSE [tag |-> script_tag, count |-> 0]

(***************************************************************************)
(* seo_optimizer.rs: the tags rewritten by add_alt_tags and                *)
(* fix_external_links                                                      *)
(***************************************************************************)
to_uppercase_map == [c \in Chars(LowerLetters) |->
                        LET k == CHOOSE i \in 1..26 : SubSeq(LowerLetters, i, i) = c
                        IN  SubSeq(UpperLetters, k, k)]

char_to_uppercase(c) == IF c \in DOMAIN to_uppercase_map THEN to_uppercase_map[c] ELSE c

\* str::replace(from, to): every occurrence, left to right
RECURSIVE replace(_, _, _)
replace(s, from, to) ==
    IF find(s, from) < 0 THEN s
    ELSE SliceTo(s, find(s, from)) \o to
         \o replace(SliceFrom(s, find(s, from) + Len(from)), from, to)

\* what follows "src=" in the tag (`remaining`), None (<<>>) without a src
after_src(img_tag) ==
    IF find(to_lowercase(img_tag), "src=") < 0 THEN None
    ELSE Some(SliceFrom(img_tag, find(to_lowercase(img_tag), "src=") + 4))

\* &remaining[1..] on an empty `remaining`: the quote character defaults to
\* '"' and the slice starts past the end of the text
extract_alt_panics(img_tag) == after_src(img_tag) = Some("")

extract_alt_from_src(img_tag) ==
    LET after == after_src(img_tag)[1]
        quote_char == CharAt(after, 0)
        src_content == SliceFrom(after, 1)
        end == find(src_content, quote_char)
        src == SliceTo(src_content, end)
        pieces == split(src, {"/"})
        filename == pieces[Len(pieces)]
        name == replace(replace(split(filename, {"."})[1], "-", " "), "_", " ")
    IN  IF after_src(img_tag) # None /\ quote_char \in {"\"", "'"} /\ end >= 0
        THEN IF name = "" THEN ""
             ELSE char_to_uppercase(CharAt(name, 0)) \o SliceFrom(name, 1)
        ELSE "Image"

alt_img_tag(img_tag) ==
    IF ~contains(to_lowercase(img_tag), "alt=")
    THEN [tag |-> replacen(img_tag, "<img",
                           "<img alt=\"" \o extract_alt_from_src(img_tag) \o "\""),
          count |-> 1]
    ELSE [tag |-> img_tag, count |-> 0]

external_a_tag(a_tag) ==
    LET lower == to_lowercase(a_tag)
        is_external == /\ contains(lower, "http")
                       /\ \/ contains(lower, "target=\"_blank\"")
                          \/ contains(lower, "target='_blank'")
        has_noopener == contains(lower, "noopener")
    IN  IF is_external /\ ~has_noopener
        THEN [tag |-> IF contains(lower, "rel=")
                      THEN replace(replace(a_tag, "rel=\"", "rel=\"noopener noreferrer "),
                                   "rel='", "rel='noopener noreferrer ")
                      ELSE replacen(a_tag, "<a", "<a rel=\"noopener noreferrer\""),
              count |-> 1]
        ELSE [tag |-> a_tag, count |-> 0]

\* what each tag pass looks for, and what it does with the tag it found
pass_opening(pass) ==
    CASE pass = "lazy" -> "<img"
      [] pass = "defer" -> "<script"
      [] pass = "alt" -> "<img"
      [] pass = "links" -> "<a"

rewrite_tag(pass, tag) ==
    CASE pass = "lazy" -> lazy_img_tag(tag)
      [] pass = "defer" -> defer_script_tag(tag)
      [] pass = "alt" -> alt_img_tag(tag)
      [] pass = "links" -> external_a_tag(tag)

\* the loop of the tag passes: characters are copied up to the next match of
\* the opening (lowercased window), the tag is rewritten, and the scan goes
\* on after the tag
RECURSIVE scan_tags(_, _)
scan_tags(pass, h) ==
    LET p == find(to_lowercase(h), pass_opening(pass))
        tag == Slice(h, p, tag_end(h, p))
        rest == scan_tags(pass, SliceFrom(h, tag_end(h, p)))
    IN  IF p < 0 THEN [html |-> h, count |-> 0]
        ELSE [html |-> SliceTo(h, p) \o rewrite_tag(pass, tag).tag \o rest.html,
              count |-> rewrite_tag(pass, tag).count + rest.count]

add_lazy_loading(h) == scan_tags("lazy", h)

defer_scripts(h) == scan_tags("defer", h)

(***************************************************************************)
(* What the HTML parser (scraper) reports for a text: the elements of a    *)
(* name in document order, an attribute of a tag, the text of an element.  *)
(***************************************************************************)
\* the opening tags `<name ...>` of the text, in document order (a tag cut
\* off by the end of the text is no element)
RECURSIVE elements(_, _)
elements(h, name) ==
    LET p == find(to_lowercase(h), "<" \o name)
        e == tag_end(h, p)
        follows == IF p + Len(name) + 1 < Len(h) THEN CharAt(h, p + Len(name) + 1) ELSE ""
    IN  IF p < 0 \/ find(SliceFrom(h, p), ">") < 0 THEN <<>>
        ELSE IF follows \in {" ", ">", "/"}
             THEN <<Slice(h, p, e)>> \o elements(SliceFrom(h, e), name)
             ELSE elements(SliceFrom(h, p + 1), name)

\* ElementRef::value().attr(name): the quoted value of the attribute, None
\* (<<>>) when the tag has no such attribute
attr(tag, name) ==
    LET lower == to_lowercase(tag)
        p == find(lower, " " \o name \o "=")
        after == SliceFrom(tag, p + Len(name) + 2)
        quote == IF after = "" THEN "" ELSE CharAt(after, 0)
        end == find(SliceFrom(after, 1), quote)
    IN  IF p < 0 \/ quote \notin {"\"", "'"} \/ end < 0 THEN None
        ELSE Some(Slice(after, 1, end + 1))

\* the text contents of the elements `<name ...>text</name>`, in document order
RECURSIVE element_texts(_, _)
element_texts(h, name) ==
    LET p == find(to_lowercase(h), "<" \o name)
        e == tag_end(h, p)
        follows == IF p + Len(name) + 1 < Len(h) THEN CharAt(h, p + Len(name) + 1) ELSE ""
        close == find(to_lowercase(SliceFrom(h, e)), "</" \o name \o ">")
    IN  IF p < 0 THEN <<>>
        ELSE IF follows \notin {" ", ">"} THEN element_texts(SliceFrom(h, p + 1), name)
        ELSE IF close < 0 THEN <<SliceFrom(h, e)>>
        ELSE <<Slice(h, e, e + close)>>
             \o element_texts(SliceFrom(h, e + close + Len(name) + 3), name)

\* String::insert_str(pos, text)
insert_str(h, pos, text) == SliceTo(h, pos) \o text \o SliceFrom(h, pos)

(***************************************************************************)
(* optimizer.rs: count_images_without_dimensions, add_preconnect_hints     *)
(***************************************************************************)
\* Selector "img:not([width]):not([height])"
count_images_without_dimensions(h) ==
    Len(SelectSeq(elements(h, "img"),
                  LAMBDA t : attr(t, "width") = None /\ attr(t, "height") = None))

preconnect_domains(h) ==
    (IF contains(h, "fonts.googleapis.com") /\ ~contains(h, "preconnect")
     THEN <<"https://fonts.googleapis.com", "https://fonts.gstatic.com">> ELSE <<>>)
    \o (IF contains(h, "googletagmanager.com")
        THEN <<"https://www.googletagmanager.com">> ELSE <<>>)
    \o (IF contains(h, "google-analytics.com")
        THEN <<"https://www.google-analytics.com">> ELSE <<>>)

RECURSIVE preconnect_html(_)
preconnect_html(domains) ==
    IF domains = <<>> THEN ""
    ELSE "<link rel=\"preconnect\" href=\"" \o domains[1] \o "\" crossorigin>"
         \o preconnect_html(Tail(domains))

\* the document with the hints inserted after <head>, and hints_added
add_preconnect_hints(h) ==
    LET domains == preconnect_domains(h)
        pos == find(to_lowercase(h), "<head>")
    IN  [html |-> IF domains # <<>> /\ pos >= 0
                  THEN insert_str(h, pos + 6, preconnect_html(domains))
                  ELSE h,
         count |-> Len(domains)]

(***************************************************************************)
(* seo_optimizer.rs: SeoOptimizer::optimize and its passes                 *)
(***************************************************************************)
add_alt_tags(h) == scan_tags("alt", h)

fix_external_links(h) == scan_tags("links", h)

\* the tags a tag pass finds in the text, in document order
RECURSIVE found_tags(_, _)
found_tags(pass, h) ==
    LET p == find(to_lowercase(h), pass_opening(pass))
    IN  IF p < 0 THEN <<>>
        ELSE <<Slice(h, p, tag_end(h, p))>> \o found_tags(pass, SliceFrom(h, tag_end(h, p)))

\* add_alt_tags reaches an img tag on which extract_alt_from_src panics
add_alt_tags_panics(h) ==
    \E k \in DOMAIN found_tags("alt", h) :
        /\ ~contains(to_lowercase(found_tags("alt", h)[k]), "alt=")
        /\ extract_alt_panics(found_tags("alt", h)[k])

description_min_len == 120
description_max_len == 160
paragraph_min_len == 50
description_chars == 155

\* what follows "content=" after the first name="description"
after_content(h) ==
    LET start == find(to_lowercase(h), "name=\"description\"")
        rest == SliceFrom(h, start)
        content_start == find(to_lowercase(rest), "content=")
    IN  IF start < 0 \/ content_start < 0 THEN None
        ELSE Some(SliceFrom(rest, content_start + 8))

\* &after_content[1..] on an empty text
ensure_meta_description_panics(h) == after_content(h) = Some("")

generate_description_from_content(h) ==
    LET long == SelectSeq(element_texts(h, "p"),
                          LAMBDA t : byte_len(trim(t)) > paragraph_min_len)
        clean == trim(long[1])
        truncated == SliceTo(clean, Min({Len(clean), description_chars}))
        titles == element_texts(h, "title")
    IN  IF long # <<>>
        THEN IF rfind(truncated, " ") >= 0
             THEN SliceTo(truncated, rfind(truncated, " ")) \o "..."
             ELSE truncated \o "..."
        ELSE IF titles # <<>> THEN trim(titles[1])
        ELSE ""

\* the document after the pass, and the MetaResult
ensure_meta_description(h) ==
    LET lower == to_lowercase(h)
        after == after_content(h)[1]
        quote_char == CharAt(after, 0)
        content == SliceFrom(after, 1)
        end == find(content, quote_char)
        desc == SliceTo(content, end)
        pos == find(lower, "<head>")
    IN  IF contains(lower, "name=\"description\"") \/ contains(lower, "name='description'")
        THEN [html |-> h,
              result |->
                  IF after_content(h) # None /\ quote_char \in {"\"", "'"} /\ end >= 0
                  THEN IF byte_len(desc) < description_min_len THEN "TooShort"
                       ELSE IF byte_len(desc) > description_max_len THEN "TooLong"
                       ELSE "Exists"
                  ELSE "Exists"]
        ELSE IF pos >= 0
        THEN [html |-> insert_str(h, pos + 6,
                                  "\n<meta name=\"description\" content=\""
                                  \o generate_description_from_content(h) \o "\">\n"),
              result |-> "Added"]
        ELSE [html |-> h, result |-> "Exists"]

\* the first three '/'-separated pieces of the url, joined again
url_base(url) ==
    LET pieces == split(url, {"/"})
    IN  join(SubSeq(pieces, 1, Min({3, Len(pieces)})), "/")

\* the meta elements with name="description"
description_metas(h) ==
    SelectSeq(elements(h, "meta"), LAMBDA t : attr(t, "name") = Some("description"))

\* the img elements with a src
images_with_src(h) == SelectSeq(elements(h, "img"), LAMBDA t : attr(t, "src") # None)

\* the og: tags that are missing, in the order they are pushed
og_tags(h, url, site_name) ==
    LET lower == to_lowercase(h)
        titles == element_texts(h, "title")
        metas == description_metas(h)
        imgs == images_with_src(h)
        src == attr(imgs[1], "src")[1]
    IN  (IF ~contains(lower, "og:url")
         THEN <<"<meta property=\"og:url\" content=\"" \o url \o "\">\n">> ELSE <<>>)
        \o (IF ~contains(lower, "og:type")
            THEN <<"<meta property=\"og:type\" content=\"website\">\n">> ELSE <<>>)
        \o (IF ~contains(lower, "og:title") /\ titles # <<>>
            THEN <<"<meta property=\"og:title\" content=\"" \o trim(titles[1]) \o "\">\n">>
            ELSE <<>>)
        \o (IF ~contains(lower, "og:description") /\ metas # <<>>
               /\ attr(metas[1], "content") # None
            THEN <<"<meta property=\"og:description\" content=\""
                   \o attr(metas[1], "content")[1] \o "\">\n">>
            ELSE <<>>)
        \o (IF ~contains(lower, "og:image") /\ imgs # <<>>
            THEN <<"<meta property=\"og:image\" content=\""
                   \o (IF starts_with(src, "http") THEN src ELSE url_base(url) \o src)
                   \o "\">\n">>
            ELSE <<>>)
        \o (IF ~contains(lower, "og:site_name") /\ site_name # ""
            THEN <<"<meta property=\"og:site_name\" content=\"" \o site_name \o "\">\n">>
            ELSE <<>>)

\* the document with `text` inserted before </head>, unchanged without one
insert_before_head_end(h, text) ==
    IF find(to_lowercase(h), "</head>") < 0 THEN h
    ELSE insert_str(h, find(to_lowercase(h), "</head>"), text)

add_open_graph_tags(h, url, site_name) ==
    [html |-> IF og_tags(h, url, site_name) # <<>>
              THEN insert_before_head_end(h, join(og_tags(h, url, site_name), ""))
              ELSE h,
     count |-> Len(og_tags(h, url, site_name))]

add_twitter_card_tags(h) ==
    IF ~contains(to_lowercase(h), "twitter:card")
    THEN [html |-> insert_before_head_end(
                       h, "<meta name=\"twitter:card\" content=\"summary_large_image\">\n"),
          count |-> 1]
    ELSE [html |-> h, count |-> 0]

\* the document after the pass, and whether a canonical link was added
add_canonical_url(h, url) ==
    LET lower == to_lowercase(h)
    IN  IF \/ contains(lower, "rel=\"canonical\"")
           \/ contains(lower, "rel='canonical'")
           \/ find(lower, "</head>") < 0
        THEN [html |-> h, added |-> FALSE]
        ELSE [html |-> insert_before_head_end(
                           h, "<link rel=\"canonical\" href=\"" \o url \o "\">\n"),
              added |-> TRUE]

(***************************************************************************)
(* schema_generator.rs: inject_schema; image_optimizer.rs: analyze_images, *)
(* check_lcp_optimization                                                  *)
(***************************************************************************)
detect_page_type(h) ==
    LET lower == to_lowercase(h)
    IN  IF contains(lower, "woocommerce") /\ contains(lower, "product") THEN "product"
        ELSE IF contains(lower, "hentry") \/ contains(lower, "post-")
                \/ contains(lower, "article") THEN "article"
        ELSE "page"

\* Selectors .breadcrumb, .breadcrumbs, [class*='breadcrumb'],
\* nav[aria-label='breadcrumb']
has_breadcrumbs(h) ==
    \/ \E name \in {"nav", "div", "ul", "ol"} :
           \E k \in DOMAIN elements(h, name) :
               /\ attr(elements(h, name)[k], "class") # None
               /\ contains(attr(elements(h, name)[k], "class")[1], "breadcrumb")
    \/ \E k \in DOMAIN elements(h, "nav") :
           attr(elements(h, "nav")[k], "aria-label") = Some("breadcrumb")

\* generate_schema(html, url, page_type).schemas_added
schemas_added(h, url, page_type) ==
    (CASE page_type = "article" -> <<"Article">>
       [] page_type = "product" -> <<"Product">>
       [] OTHER -> <<"WebPage">>)
    \o (IF has_breadcrumbs(h) /\ non_empty(split(url, {"/"})) # <<>>
        THEN <<"BreadcrumbList">> ELSE <<>>)

\* the script element that carries the generated JSON-LD (the JSON text is
\* stood for by the names of its schemas)
schema_script(h, url) ==
    "<script type=\"application/ld+json\">\n"
    \o join(schemas_added(h, url, detect_page_type(h)), ",") \o "\n</script>\n"

\* the document after inject_schema, and the number it returns
inject_schema(h, url) ==
    IF contains(h, "application/ld+json") THEN [html |-> h, count |-> 0]
    ELSE [html |-> insert_before_head_end(h, schema_script(h, url)),
          count |-> Len(schemas_added(h, url, detect_page_type(h)))]

ends_with(s, p) == Len(p) <= Len(s) /\ SubSeq(s, Len(s) - Len(p) + 1, Len(s)) = p

\* analyze_images(html).optimizations
analyze_images(h) ==
    LET imgs == elements(h, "img")
        webp_candidates ==
            Len(SelectSeq(imgs,
                          LAMBDA t : /\ attr(t, "src") # None
                                     /\ \E ext \in {".jpg", ".jpeg", ".png", ".gif"} :
                                            ends_with(to_lowercase(attr(t, "src")[1]), ext)))
        missing_dimensions ==
            Len(SelectSeq(imgs,
                          LAMBDA t : attr(t, "width") = None /\ attr(t, "height") = None))
    IN  (IF webp_candidates > 0
         THEN <<<<webp_candidates, "images can be converted to WebP">>>> ELSE <<>>)
        \o (IF missing_dimensions > 0
            THEN <<<<missing_dimensions, "images missing width/height (causes CLS)">>>>
            ELSE <<>>)

\* check_lcp_optimization(html): Some(src of the first image) when that image
\* has no fetchpriority, None otherwise
check_lcp_optimization(h) ==
    LET imgs == elements(h, "img")
    IN  IF imgs # <<>> /\ attr(imgs[1], "fetchpriority") = None
           /\ attr(imgs[1], "src") # None
        THEN Some(attr(imgs[1], "src")[1])
        ELSE None

(***************************************************************************)
(* optimizer.rs: optimize_html, steps 3 and 4                              *)
(***************************************************************************)
\* "3. Add lazy loading to images"
PassLazy ==
    /\ OnlyOpt
    /\ opt_pc = "lazy"
    /\ IF opt_options.lazy_images
       THEN /\ optimized' = add_lazy_loading(optimized).html
            /\ optimizations' =
                   IF add_lazy_loading(optimized).count > 0
                   THEN Append(optimizations,
                               <<add_lazy_loading(optimized).count, "images lazy-loaded">>)
                   ELSE optimizations
       ELSE UNCHANGED <<optimized, optimizations>>
    /\ opt_pc' = "defer"
    /\ UNCHANGED <<seo_html, seo_changes, opt_html, opt_url, opt_options>>

\* "4. Defer JavaScript"
PassDefer ==
    /\ OnlyOpt
    /\ opt_pc = "defer"
    /\ IF opt_options.defer_js
       THEN /\ optimized' = defer_scripts(optimized).html
            /\ optimizations' =
                   IF defer_scripts(optimized).count > 0
                   THEN Append(optimizations,
                               <<defer_scripts(optimized).count, "scripts deferred">>)
                   ELSE optimizations
       ELSE UNCHANGED <<optimized, optimizations>>
    /\ opt_pc' = "dims"
    /\ UNCHANGED <<seo_html, seo_changes, opt_html, opt_url, opt_options>>

OptimizeOptions == [minify_css : BOOLEAN, minify_html : BOOLEAN, defer_js : BOOLEAN,
                    lazy_images : BOOLEAN]

\* the page addresses of the requests
Urls == {"https://s.example/blog/a-b/"}

\* optimize_html at the step `pc`, the document h having come through the
\* steps before it unchanged
OptAt(pc, h) ==
    /\ opt_html = h
    /\ opt_url \in Urls
    /\ optimized = h
    /\ optimizations = <<>>
    /\ opt_pc = pc
    /\ seo_html = ""
    /\ seo_changes = <<>>

LazySegments ==
    {"<img src=\"a.jpg\">", "<IMG src=\"b.jpg\">", "<img loading=\"eager\" src=\"c.jpg\">",
     "<img fetchpriority=\"high\" src=\"d.jpg\">", "<p>t</p>", "<img src=\"e.jpg\"",
     "<img LOADING=\"eager\">"}

LazyInit ==
    /\ \E h \in Texts(LazySegments, MaxParts) : OptAt("lazy", h)
    /\ opt_options \in {o \in OptimizeOptions : ~o.minify_css /\ ~o.minify_html /\ ~o.defer_js}
    /\ CssIdle
    /\ ResIdle
    /\ MinIdle
    /\ TsIdle
    /\ HandlerIdle
    /\ css_run = 1
    /\ CritIdle

LazyNext == PassLazy

SpecLazy == LazyInit /\ [][LazyNext]_vars

DeferSegments ==
    {"<script src=\"a.js\"></script>", "<script>inline()</script>",
     "<script defer src=\"b.js\"></script>", "<script async src=\"c.js\"></script>",
     "<script src=\"/async-loader.js\"></script>", "<SCRIPT src=\"d.js\"></SCRIPT>",
     "<script data-src=\"e\">f()</script>", "<p>t</p>", "<script src=\"g.js\""}

DeferInit ==
    /\ \E h \in Texts(DeferSegments, MaxParts) : OptAt("defer", h)
    /\ opt_options \in {o \in OptimizeOptions : ~o.minify_css /\ ~o.minify_html /\ ~o.lazy_images}
    /\ CssIdle
    /\ ResIdle
    /\ MinIdle
    /\ TsIdle
    /\ HandlerIdle
    /\ css_run = 1
    /\ CritIdle

DeferNext == PassDefer

SpecDefer == DeferInit /\ [][DeferNext]_vars

(***************************************************************************)
(* optimizer.rs: optimize_html, the whole pipeline                         *)
(***************************************************************************)
MaxPageParts == 2

PagePieces ==
    {Piece("<head><title>T</title><link href=\"https://fonts.googleapis.com/c\"></head>",
           {"head", "title", "link"}, {}),
     Piece("<style>.hero{c:r}.unused{c:b}</style>", {"style"}, {}),
     Piece("<style>@media s{.a{c:d}}x</style>", {"style"}, {}),
     Piece("<style>.u{c</style>", {"style"}, {}),
     Piece("<style>@f{éé}</style>", {"style"}, {}),
     Piece("<!-- c --><p class=\"hero\">a  b</p>", {"p"}, {"hero"}),
     Piece("<img src=\"/i/my-pic.jpg\">", {"img"}, {}),
     Piece("<a href=\"http://o.example\" target=\"_blank\">o</a>", {"a"}, {}),
     Piece("<script src=\"a.js\"></script>", {"script"}, {}),
     Piece("<meta name=\"description\" content=\"d\">", {"meta"}, {}),
     Piece("<img src=", {}, {}),
     Piece("<meta name=\"description\" content=", {}, {})}

\* a document with local and CDN-hosted stylesheets and scripts
ResourcePiece ==
    Piece("<link rel=\"stylesheet\" href=\"/a.css\"><link rel=\"stylesheet\" href=\"//unpkg.com/u.css\"><script src=\"/j.js\"></script><script src=\"//unpkg.com/q.js\"></script>",
          {"link", "script"}, {})

RECURSIVE Pages(_)
Pages(n) ==
    IF n = 0 THEN {<<>>}
    ELSE Pages(n - 1) \cup {Append(d, e) : d \in Pages(n - 1), e \in PagePieces}

\* test_verification.rs: the parts of html_input
VerifyComment == Piece("<!-- remove me -->", {}, {})
VerifyStyle == Piece("<style> .foo { color: red; } </style>", {"style"}, {})
VerifyDiv == Piece("<div class=\"foo\"></div>", {"div"}, {"foo"})
VerifyHeading == Piece("<h1>  Test   Spaces  </h1>", {"h1"}, {})
VerifyScript ==
    Piece("<script>\n var x = 1;\n // comment\n console.log(x);\n</script>", {"script"}, {})

VerifyPages ==
    {<<VerifyComment, VerifyStyle, VerifyDiv, VerifyHeading, VerifyScript>>,
     <<VerifyStyle, VerifyDiv>>, <<VerifyStyle>>, <<VerifyScript>>,
     <<VerifyComment, VerifyHeading>>}

\* images with and without alt text, with and without a usable src
AltPieces ==
    {Piece("<img src=\"/i/hero-banner_x.jpg\">", {"img"}, {}),
     Piece("<img src=\"/i/\">", {"img"}, {}),
     Piece("<img src=\"t.png\" alt=\"e\">", {"img"}, {}),
     Piece("<img width=\"1\">", {"img"}, {}),
     Piece("<img src='a.gif'>", {"img"}, {})}

AltPages == {<<e>> : e \in AltPieces} \cup {<<e, f>> : e \in AltPieces, f \in AltPieces}

\* documents that name the hosts add_preconnect_hints looks for, with and
\* without <head>, with and without the hints of an earlier run
HintPieces ==
    {Piece("<head><script src=\"https://www.googletagmanager.com/g.js\"></script></head>",
           {"head", "script"}, {}),
     Piece("<head><link rel=\"preconnect\" href=\"https://www.googletagmanager.com\" crossorigin><script src=\"https://www.googletagmanager.com/g.js\"></script></head>",
           {"head", "link", "script"}, {}),
     Piece("<head><link rel=\"preconnect\" href=\"https://x.example\"><link href=\"https://fonts.googleapis.com/c\"></head>",
           {"head", "link"}, {}),
     Piece("<p>see google-analytics.com</p>", {"p"}, {})}

HintPages == {<<e>> : e \in HintPieces}

\* Html::parse_document on a document of the model
parse_document(h) ==
    CHOOSE d \in Pages(MaxPageParts) \cup {<<ResourcePiece>>} \cup VerifyPages \cup AltPages
                 \cup HintPages :
        Render(d) = h

\* "1. Aggressive CSS tree-shaking FIRST": the call
PassCss ==
    /\ opt_pc = "css"
    /\ IF opt_options.minify_css
       THEN /\ used_selectors' = extract_used_selectors(parse_document(optimized))
            /\ ts_html' = optimized
            /\ ts_i' = 0
            /\ ts_result' = ""
            /\ ts_count' = 0
            /\ ts_pc' = "scan"
            /\ opt_pc' = "css_run"
       ELSE /\ UNCHANGED <<used_selectors, ts_vars>>
            /\ opt_pc' = "minify"
    /\ UNCHANGED <<css, remaining, result, kept_rules, removed_rules, css_pc>>
    /\ UNCHANGED <<crit_vars, css_run, res_vars, min_vars, h_vars>>
    /\ UNCHANGED <<seo_html, seo_changes, opt_html, opt_url, opt_options, optimized, optimizations>>

\* step 1, after optimize_and_treeshake_css has returned
PassCssReturn ==
    /\ OnlyOpt
    /\ opt_pc = "css_run"
    /\ ts_pc = "done"
    /\ optimized' = ts_result
    /\ optimizations' = IF ts_count > 0
                        THEN Append(optimizations, <<ts_count, "style blocks optimized">>)
                        ELSE optimizations
    /\ opt_pc' = "minify"
    /\ UNCHANGED <<seo_html, seo_changes, opt_html, opt_url, opt_options>>

\* "2. Minify HTML (after CSS is processed)": the call
PassMinify ==
    /\ opt_pc = "minify"
    /\ IF opt_options.minify_html
       THEN /\ m_html' = optimized
            /\ m_i' = 0
            /\ m_result' = ""
            /\ in_pre' = FALSE
            /\ in_script' = FALSE
            /\ in_style' = FALSE
            /\ in_comment' = FALSE
            /\ last_was_space' = FALSE
            /\ m_pc' = "scan"
            /\ opt_pc' = "minify_run"
       ELSE /\ UNCHANGED min_vars
            /\ opt_pc' = "lazy"
    /\ UNCHANGED <<crit_vars, css_run, css_vars, res_vars, ts_vars, h_vars>>
    /\ UNCHANGED <<seo_html, seo_changes, opt_html, opt_url, opt_options, optimized, optimizations>>

\* step 2, after minify_html has returned
PassMinifyReturn ==
    /\ OnlyOpt
    /\ opt_pc = "minify_run"
    /\ m_pc = "done"
    /\ optimized' = m_result
    /\ optimizations' = Append(optimizations, <<0, "HTML minified">>)
    /\ opt_pc' = "lazy"
    /\ UNCHANGED <<seo_html, seo_changes, opt_html, opt_url, opt_options>>

\* "5. Add image dimensions hint"
PassDims ==
    /\ OnlyOpt
    /\ opt_pc = "dims"
    /\ optimizations' =
           IF count_images_without_dimensions(optimized) > 0
           THEN Append(optimizations,
                       <<count_images_without_dimensions(optimized), "images need dimensions">>)
           ELSE optimizations
    /\ opt_pc' = "preconnect"
    /\ UNCHANGED <<seo_html, seo_changes, opt_html, opt_url, opt_options, optimized>>

\* "6. Add preconnect hints for external resources"
PassPreconnect ==
    /\ OnlyOpt
    /\ opt_pc = "preconnect"
    /\ optimized' = add_preconnect_hints(optimized).html
    /\ optimizations' =
           IF add_preconnect_hints(optimized).count > 0
           THEN Append(optimizations,
                       <<add_preconnect_hints(optimized).count, "preconnect hints added">>)
           ELSE optimizations
    /\ opt_pc' = "seo"
    /\ UNCHANGED <<seo_html, seo_changes, opt_html, opt_url, opt_options>>

RECURSIVE prefixed(_, _)
prefixed(prefix, entries) ==
    IF entries = <<>> THEN <<>>
    ELSE <<<<entries[1][1], prefix \o entries[1][2]>>>> \o prefixed(prefix, Tail(entries))

\* "7. SEO Optimizations": seo_optimizer.optimize(&mut optimized, url) takes
\* the document as &str; `let mut optimized = html.to_string()` is its own copy
PassSeo ==
    /\ OnlyOpt
    /\ opt_pc = "seo"
    /\ seo_html' = optimized
    /\ seo_changes' = <<>>
    /\ opt_pc' = "seo_alt"
    /\ UNCHANGED <<opt_html, opt_url, opt_options, optimized, optimizations>>

\* a pass of SeoOptimizer::optimize panics
SeoPanic ==
    /\ OnlyOpt
    /\ \/ opt_pc = "seo_alt" /\ add_alt_tags_panics(seo_html)
       \/ opt_pc = "seo_meta" /\ ensure_meta_description_panics(seo_html)
    /\ opt_pc' = "panic"
    /\ UNCHANGED <<seo_html, seo_changes, opt_html, opt_url, opt_options, optimized,
                   optimizations>>

\* "1. Fix images without alt tags"
SeoAlt ==
    /\ OnlyOpt
    /\ opt_pc = "seo_alt"
    /\ ~add_alt_tags_panics(seo_html)
    /\ seo_html' = add_alt_tags(seo_html).html
    /\ seo_changes' = IF add_alt_tags(seo_html).count > 0
                      THEN Append(seo_changes,
                                  <<add_alt_tags(seo_html).count, "alt tags added">>)
                      ELSE seo_changes
    /\ opt_pc' = "seo_meta"
    /\ UNCHANGED <<opt_html, opt_url, opt_options, optimized, optimizations>>

\* "2. Check/add meta description" (a change is the number formatted into
\* its text and the text; 0 when the text has no number)
SeoMeta ==
    /\ OnlyOpt
    /\ opt_pc = "seo_meta"
    /\ ~ensure_meta_description_panics(seo_html)
    /\ seo_html' = ensure_meta_description(seo_html).html
    /\ seo_changes' = IF ensure_meta_description(seo_html).result = "Added"
                      THEN Append(seo_changes, <<0, "Meta description added">>)
                      ELSE seo_changes
    /\ opt_pc' = "seo_og"
    /\ UNCHANGED <<opt_html, opt_url, opt_options, optimized, optimizations>>

\* "3. Add Open Graph tags": site_name is the empty text of SeoOptimizer::new()
SeoOpenGraph ==
    /\ OnlyOpt
    /\ opt_pc = "seo_og"
    /\ seo_html' = add_open_graph_tags(seo_html, opt_url, "").html
    /\ seo_changes' = IF add_open_graph_tags(seo_html, opt_url, "").count > 0
                      THEN Append(seo_changes,
                                  <<add_open_graph_tags(seo_html, opt_url, "").count,
                                    "Open Graph tags added">>)
                      ELSE seo_changes
    /\ opt_pc' = "seo_twitter"
    /\ UNCHANGED <<opt_html, opt_url, opt_options, optimized, optimizations>>

\* "4. Add Twitter Card tags"
SeoTwitter ==
    /\ OnlyOpt
    /\ opt_pc = "seo_twitter"
    /\ seo_html' = add_twitter_card_tags(seo_html).html
    /\ seo_changes' = IF add_twitter_card_tags(seo_html).count > 0
                      THEN Append(seo_changes,
                                  <<add_twitter_card_tags(seo_html).count,
                                    "Twitter Card tags added">>)
                      ELSE seo_changes
    /\ opt_pc' = "seo_canonical"
    /\ UNCHANGED <<opt_html, opt_url, opt_options, optimized, optimizations>>

\* "5. Add canonical URL"
SeoCanonical ==
    /\ OnlyOpt
    /\ opt_pc = "seo_canonical"
    /\ seo_html' = add_canonical_url(seo_html, opt_url).html
    /\ seo_changes' = IF add_canonical_url(seo_html, opt_url).added
                      THEN Append(seo_changes, <<0, "Canonical URL added">>)
                      ELSE seo_changes
    /\ opt_pc' = "seo_links"
    /\ UNCHANGED <<opt_html, opt_url, opt_options, optimized, optimizations>>

\* "6. Fix external links (add rel="noopener")"
SeoLinks ==
    /\ OnlyOpt
    /\ opt_pc = "seo_links"
    /\ seo_html' = fix_external_links(seo_html).html
    /\ seo_changes' = IF fix_external_links(seo_html).count > 0
                      THEN Append(seo_changes,
                                  <<fix_external_links(seo_html).count,
                                    "external links secured">>)
                      ELSE seo_changes
    /\ opt_pc' = "seo_return"
    /\ UNCHANGED <<opt_html, opt_url, opt_options, optimized, optimizations>>

\* step 7 after the call: only seo_result.changes is read, seo_result.html
\* is dropped
PassSeoReturn ==
    /\ OnlyOpt
    /\ opt_pc = "seo_return"
    /\ optimizations' = optimizations \o prefixed("SEO: ", seo_changes)
    /\ opt_pc' = "schema"
    /\ UNCHANGED <<seo_html, seo_changes, opt_html, opt_url, opt_options, optimized>>

\* "8. Schema.org structured data"
PassSchema ==
    /\ OnlyOpt
    /\ opt_pc = "schema"
    /\ optimized' = inject_schema(optimized, opt_url).html
    /\ optimizations' =
           IF inject_schema(optimized, opt_url).count > 0
           THEN Append(optimizations,
                       <<inject_schema(optimized, opt_url).count, "Schema.org types added">>)
           ELSE optimizations
    /\ opt_pc' = "images"
    /\ UNCHANGED <<seo_html, seo_changes, opt_html, opt_url, opt_options>>

\* "9. Image optimization analysis"
PassImages ==
    /\ OnlyOpt
    /\ opt_pc = "images"
    /\ optimizations' =
           optimizations \o prefixed("Image: ", analyze_images(optimized))
           \o (IF check_lcp_optimization(optimized) # None
               THEN <<<<0, "LCP: Add fetchpriority=\"high\" to LCP image: "
                           \o check_lcp_optimization(optimized)[1]>>>>
               ELSE <<>>)
    /\ opt_pc' = "return"
    /\ UNCHANGED <<seo_html, seo_changes, opt_html, opt_url, opt_options, optimized>>

\* Ok(OptimizeResult { html: optimized, ... })
PassReturn ==
    /\ OnlyOpt
    /\ opt_pc = "return"
    /\ opt_pc' = "done"
    /\ UNCHANGED <<seo_html, seo_changes, opt_html, opt_url, opt_options, optimized, optimizations>>

\* the process aborts when tree-shaking panics under step 1
PassCssPanic ==
    /\ OnlyOpt
    /\ opt_pc = "css_run"
    /\ css_pc = "panic"
    /\ opt_pc' = "panic"
    /\ UNCHANGED <<seo_html, seo_changes, opt_html, opt_url, opt_options, optimized, optimizations>>

optimize_html ==
    \/ PassCss
    \/ PassCssReturn
    \/ PassCssPanic
    \/ PassMinify
    \/ PassMinifyReturn
    \/ PassLazy
    \/ PassDefer
    \/ PassDims
    \/ PassPreconnect
    \/ PassSeo
    \/ SeoPanic
    \/ SeoAlt
    \/ SeoMeta
    \/ SeoOpenGraph
    \/ SeoTwitter
    \/ SeoCanonical
    \/ SeoLinks
    \/ PassSeoReturn
    \/ PassSchema
    \/ PassImages
    \/ PassReturn

\* the OptimizeResult of a call that has returned
original_size == byte_len(opt_html)
optimized_size == byte_len(optimized)

\* f64::round of the quotient n / m (m > 0): half away from zero
round(n, m) ==
    IF n >= 0 THEN (2 * n + m) \div (2 * m) ELSE -((2 * (-n) + m) \div (2 * m))

\* reduction_percent: (reduction * 10.0).round() / 10.0, counted in tenths of
\* a percent, with reduction = (1 - optimized_size / original_size) * 100
reduction_percent ==
    IF original_size > 0 THEN round(1000 * (original_size - optimized_size), original_size)
    ELSE 0

PageInit ==
    /\ \E d \in Pages(MaxPageParts) : opt_html = Render(d)
    /\ opt_url \in Urls
    /\ opt_options \in OptimizeOptions
    /\ optimized = opt_html
    /\ optimizations = <<>>
    /\ opt_pc = "css"
    /\ seo_html = ""
    /\ seo_changes = <<>>
    /\ CssIdle
    /\ ResIdle
    /\ MinIdle
    /\ TsIdle
    /\ HandlerIdle
    /\ css_run = 1
    /\ CritIdle

PageNext ==
    \/ optimize_html
    \/ optimize_and_treeshake_css
    \/ remove_unused_css
    \/ minify_html

SpecPage == PageInit /\ [][PageNext]_vars

\* optimize_html on the documents of test_verification.rs and on the
\* one-piece pages
VerifyInit ==
    /\ \E d \in Pages(1) \cup VerifyPages : opt_html = Render(d)
    /\ opt_url \in Urls
    /\ opt_options \in OptimizeOptions
    /\ optimized = opt_html
    /\ optimizations = <<>>
    /\ opt_pc = "css"
    /\ seo_html = ""
    /\ seo_changes = <<>>
    /\ CssIdle
    /\ ResIdle
    /\ MinIdle
    /\ TsIdle
    /\ HandlerIdle
    /\ css_run = 1
    /\ CritIdle

SpecVerify == VerifyInit /\ [][PageNext]_vars

\* the pages of a style block followed by the paragraph that uses its class
KeptRulePages ==
    {d \in Pages(MaxPageParts) : Len(d) = 2 /\ d[1].tags = {"style"} /\ d[2].classes = {"hero"}}

\* optimize_html on the pages of images and of third-party references, and
\* on the one-piece pages
TagsInit ==
    /\ \E d \in Pages(1) \cup AltPages \cup HintPages \cup KeptRulePages : opt_html = Render(d)
    /\ opt_url \in Urls
    /\ opt_options \in OptimizeOptions
    /\ optimized = opt_html
    /\ optimizations = <<>>
    /\ opt_pc = "css"
    /\ seo_html = ""
    /\ seo_changes = <<>>
    /\ CssIdle
    /\ ResIdle
    /\ MinIdle
    /\ TsIdle
    /\ HandlerIdle
    /\ css_run = 1
    /\ CritIdle

SpecTags == TagsInit /\ [][PageNext]_vars

(***************************************************************************)
(* webp_converter.rs: the image URLs of a document and their rewriting     *)
(***************************************************************************)
\* the order of str::cmp on the characters of the URLs of the model
ByteOrder ==
    " !#$%&()*+,-./0123456789:;<=>?@ABCDEFGHIJKLMNOPQRSTUVWXYZ[]^_abcdefghijklmnopqrstuvwxyz{|}~"

byte_rank(c) ==
    IF \E k \in 1..Len(ByteOrder) : SubSeq(ByteOrder, k, k) = c
    THEN CHOOSE k \in 1..Len(ByteOrder) : SubSeq(ByteOrder, k, k) = c
    ELSE Len(ByteOrder) + 1

\* a < b in str::cmp
RECURSIVE str_less(_, _)
str_less(a, b) ==
    IF b = "" THEN FALSE
    ELSE IF a = "" THEN TRUE
    ELSE IF CharAt(a, 0) # CharAt(b, 0) THEN byte_rank(CharAt(a, 0)) < byte_rank(CharAt(b, 0))
    ELSE str_less(SliceFrom(a, 1), SliceFrom(b, 1))

\* urls.sort(); urls.dedup()
RECURSIVE sort_dedup(_)
sort_dedup(urls) ==
    IF urls = <<>> THEN <<>>
    ELSE LET least == CHOOSE u \in Range(urls) : \A v \in Range(urls) : ~str_less(v, u)
         IN  <<least>> \o sort_dedup(SelectSeq(urls, LAMBDA u : u # least))

is_image_url(url) ==
    \E ext \in {".jpg", ".jpeg", ".png", ".gif", ".webp"} : ends_with(to_lowercase(url), ext)

should_skip_image(url) ==
    \/ starts_with(url, "data:")
    \/ ends_with(to_lowercase(url), ".webp")
    \/ ends_with(to_lowercase(url), ".svg")
    \/ contains(to_lowercase(url), "favicon")
    \/ contains(to_lowercase(url), "icon")

\* "Parse srcset": the image URLs of the comma separated parts
RECURSIVE srcset_urls(_)
srcset_urls(parts) ==
    IF parts = <<>> THEN <<>>
    ELSE LET part == trim(parts[1])
             url == IF find(part, " ") >= 0 THEN SliceTo(part, find(part, " ")) ELSE part
         IN  (IF url # "" /\ is_image_url(url) THEN <<url>> ELSE <<>>)
             \o srcset_urls(Tail(parts))

\* the loop of extract_image_urls: the values of src= and srcset= in the
\* order they are met
RECURSIVE attribute_urls(_)
attribute_urls(h) ==
    LET lower == to_lowercase(h)
        hits == {find(lower, k) : k \in {"src=\"", "src='", "srcset=\"", "srcset='"}} \ {-1}
        p == Min(hits)
        is_set == starts_with(SliceFrom(lower, p), "srcset")
        skip == IF is_set THEN 8 ELSE 5
        quote_char == CharAt(h, p + skip - 1)
        rest == SliceFrom(h, p + skip)
        end == IF find(rest, quote_char) < 0 THEN Len(rest) ELSE find(rest, quote_char)
        value == SliceTo(rest, end)
    IN  IF hits = {} THEN <<>>
        ELSE (IF is_set THEN srcset_urls(split(value, {","}))
              ELSE IF is_image_url(value) THEN <<value>> ELSE <<>>)
             \o attribute_urls(SliceFrom(rest, end))

extract_image_urls(h) == sort_dedup(attribute_urls(h))

RECURSIVE trim_end_matches(_, _)
trim_end_matches(s, c) ==
    IF s # "" /\ CharAt(s, Len(s) - 1) = c THEN trim_end_matches(SliceTo(s, Len(s) - 1), c)
    ELSE s

\* what convert_image_url can come to for a URL: the download or the
\* conversion fails, the WebP is smaller, or the original is kept
ImageOutcomes == {"failed", "webp", "original"}

\* the ConvertedImageResponse of a URL that was converted with `outcome`
converted_image(url, outcome) ==
    [original_url |-> url,
     webp_filename |->
         generate_filename(url, IF outcome = "webp" THEN "webp"
                                ELSE IF ends_with(to_lowercase(url), ".png") THEN "png"
                                ELSE "jpg")]

\* convert_images_in_html(..).images for the outcomes of the URLs tried
RECURSIVE converted_images(_, _)
converted_images(urls, outcomes) ==
    IF urls = <<>> THEN <<>>
    ELSE (IF outcomes[1] = "failed" THEN <<>> ELSE <<converted_image(urls[1], outcomes[1])>>)
         \o converted_images(Tail(urls), Tail(outcomes))

RECURSIVE rewrite_html_with_webp(_, _, _)
rewrite_html_with_webp(h, converted, upload_base_url) ==
    IF converted = <<>> THEN h
    ELSE rewrite_html_with_webp(
             replace(h, converted[1].original_url,
                     trim_end_matches(upload_base_url, "/") \o "/images/"
                     \o converted[1].webp_filename),
             Tail(converted), upload_base_url)

\* the element tags of a text with what the parser reports for each: the
\* name, the rel attribute and the href (src for a script)
RECURSIVE parse_elements(_)
parse_elements(h) ==
    LET p == find(h, "<")
        e == tag_end(h, p)
        tag == Slice(h, p, e)
        name == to_lowercase(first_run(SliceFrom(tag, 1), NameChars \cup {"/"}))
        rel == IF attr(tag, "rel") = None THEN "" ELSE attr(tag, "rel")[1]
        url == IF name = "script"
               THEN IF attr(tag, "src") = None THEN "" ELSE attr(tag, "src")[1]
               ELSE IF attr(tag, "href") = None THEN "" ELSE attr(tag, "href")[1]
    IN  IF p < 0 \/ find(SliceFrom(h, p), ">") < 0 THEN <<>>
        ELSE <<Element(tag, name, rel, url)>> \o parse_elements(SliceFrom(h, e))

(***************************************************************************)
(* handlers.rs: optimize and optimize_bulk                                 *)
(***************************************************************************)
MaxPages == 3

\* the documents sent to the single-document endpoint
HandlerPages ==
    Pages(1) \cup {<<ResourcePiece>>}
    \cup {<<Piece("<!-- c --><p class=\"hero\">a  b</p>", {"p"}, {"hero"}),
            Piece("<style>.hero{c:r}.unused{c:b}</style>", {"style"}, {})>>}

\* OptimizeOptions of a request, the fields the handlers and the pipeline read
RequestOptions ==
    {[minify_html |-> b, minify_css |-> b, minify_js |-> b, defer_js |-> b, lazy_images |-> b,
      convert_webp |-> w, optimize_resources |-> r] : b, w, r \in BOOLEAN}

\* the options optimize_html reads
pipeline_options(o) ==
    [minify_css |-> o.minify_css, minify_html |-> o.minify_html, defer_js |-> o.defer_js,
     lazy_images |-> o.lazy_images]

OptimizeRequest(h, o) == [html |-> h, url |-> CHOOSE u \in Urls : TRUE, options |-> o]

\* the pages of a bulk request: an empty document and two that are not
BulkHtmls == {"", "<!-- c --><p class=\"hero\">a  b</p>", "<img src=\"/i/my-pic.jpg\">"}

RECURSIVE BulkRequests(_)
BulkRequests(n) ==
    IF n = 0 THEN {<<>>}
    ELSE BulkRequests(n - 1)
         \cup {Append(ps, OptimizeRequest(h, o)) :
                 ps \in BulkRequests(n - 1), h \in BulkHtmls,
                 o \in {r \in RequestOptions : r.minify_html /\ r.convert_webp
                                               /\ r.optimize_resources}}

\* headers.get("Authorization").and_then(|h| h.to_str().ok()).unwrap_or("")
header_value == IF auth_header = None THEN "" ELSE auth_header[1]

\* the request carries the credential the server is configured with
authorized == api_key # None /\ header_value = "Bearer " \o api_key[1]

res_rest == <<doc, options, css_links, js_sources, res_i, css_outcomes, js_outcomes,
              css_files, js_files, resources, res_pc>>

\* "Check API Key", the same text in both handlers, without the arm that
\* rejects a server that has no key
HandlerAuth_open ==
    /\ h_pc = "auth"
    /\ IF api_key # None /\ header_value # "Bearer " \o api_key[1]
       THEN response' = "Unauthorized" /\ h_pc' = "done"
       ELSE /\ response' = response
            /\ h_pc' = IF endpoint = "optimize" THEN "check" ELSE "loop"
    /\ UNCHANGED <<crit_vars, css_run, css_vars, min_vars, ts_vars, opt_vars, res_rest, html>>
    /\ UNCHANGED <<h_result, api_key, auth_header, endpoint, pages, h_i, results, images, downloads>>

\* "Check API Key", the same text in both handlers
HandlerAuth ==
    /\ h_pc = "auth"
    /\ IF api_key = None
       THEN response' = "Internal" /\ h_pc' = "done"
       ELSE IF header_value # "Bearer " \o api_key[1]
       THEN response' = "Unauthorized" /\ h_pc' = "done"
       ELSE /\ response' = response
            /\ h_pc' = IF endpoint = "optimize" THEN "check" ELSE "loop"
    /\ UNCHANGED <<crit_vars, css_run, css_vars, min_vars, ts_vars, opt_vars, res_rest, html>>
    /\ UNCHANGED <<h_result, api_key, auth_header, endpoint, pages, h_i, results, images, downloads>>

\* the call optimizer::optimize_html(&page.html, &page.url, &page.options)
call_optimize_html(page) ==
    /\ opt_html' = page.html
    /\ opt_url' = page.url
    /\ opt_options' = pipeline_options(page.options)
    /\ optimized' = page.html
    /\ optimizations' = <<>>
    /\ opt_pc' = "css"
    /\ seo_html' = ""
    /\ seo_changes' = <<>>

\* optimize without `if req.html.is_empty()`
HandlerCheck_unchecked ==
    /\ h_pc = "check"
    /\ call_optimize_html(pages[1])
    /\ h_pc' = "optimize_html"
    /\ UNCHANGED response
    /\ UNCHANGED <<crit_vars, css_run, css_vars, min_vars, ts_vars, res_rest, html>>
    /\ UNCHANGED <<h_result, api_key, auth_header, endpoint, pages, h_i, results, images, downloads>>

\* optimize: if req.html.is_empty() { return Err(BadRequest) }, then the call
\* of optimize_html
HandlerCheck ==
    /\ h_pc = "check"
    /\ IF pages[1].html = ""
       THEN /\ response' = "BadRequest"
            /\ h_pc' = "done"
            /\ UNCHANGED opt_vars
       ELSE /\ call_optimize_html(pages[1])
            /\ h_pc' = "optimize_html"
            /\ UNCHANGED response
    /\ UNCHANGED <<crit_vars, css_run, css_vars, min_vars, ts_vars, res_rest, html>>
    /\ UNCHANGED <<h_result, api_key, auth_header, endpoint, pages, h_i, results, images, downloads>>

\* optimize: let mut result = optimize_html(..)?
HandlerOptimized ==
    /\ h_pc = "optimize_html"
    /\ opt_pc = "done"
    /\ html' = optimized
    /\ h_result' = Some([original_size |-> original_size,
                         optimized_size |-> optimized_size,
                         reduction_percent |-> reduction_percent])
    /\ h_pc' = "webp"
    /\ UNCHANGED <<crit_vars, css_run, css_vars, min_vars, ts_vars, opt_vars, res_rest, response>>
    /\ UNCHANGED <<api_key, auth_header, endpoint, pages, h_i, results, images, downloads>>

\* convert_image_url: "Make URL absolute if relative"
full_url(url, base_url) ==
    IF starts_with(url, "/") THEN trim_end_matches(base_url, "/") \o url
    ELSE IF starts_with(url, "http") THEN url
    ELSE trim_end_matches(base_url, "/") \o "/" \o url

\* optimize: "WebP conversion if enabled"
HandlerWebp ==
    /\ h_pc = "webp"
    /\ LET req == pages[1]
           urls == SelectSeq(extract_image_urls(html), LAMBDA u : ~should_skip_image(u))
           upload_base == trim_end_matches(req.url, "/") \o "/wp-content/uploads"
       IN  IF req.options.convert_webp
           THEN \E outcomes \in [1..Len(urls) -> ImageOutcomes] :
                  LET converted == converted_images(urls, outcomes)
                  IN  /\ downloads' = downloads
                                      \o [k \in 1..Len(urls) |-> full_url(urls[k], req.url)]
                      /\ images' = IF converted # <<>> THEN Some(converted) ELSE None
                      /\ html' = IF converted # <<>>
                                 THEN rewrite_html_with_webp(html, converted, upload_base)
                                 ELSE html
                      /\ optimizations' =
                           IF converted # <<>>
                           THEN Append(optimizations,
                                       <<Len(converted), "images converted to WebP">>)
                           ELSE optimizations
           ELSE /\ images' = None
                /\ UNCHANGED <<downloads, html, optimizations>>
    /\ h_pc' = "resources"
    /\ UNCHANGED <<crit_vars, css_run, css_vars, min_vars, ts_vars, res_rest, response>>
    /\ UNCHANGED <<opt_html, opt_url, opt_options, optimized, opt_pc, seo_html, seo_changes>>
    /\ UNCHANGED <<h_result, api_key, auth_header, endpoint, pages, h_i, results>>

\* optimize: "External resource optimization if enabled", up to the call of
\* optimize_external_resources; without it the response is returned
HandlerResources ==
    /\ h_pc = "resources"
    /\ IF pages[1].options.optimize_resources
       THEN /\ doc' = parse_elements(html)
            /\ options' = [minify_css |-> pages[1].options.minify_css,
                           minify_js |-> pages[1].options.minify_js]
            /\ css_links' = extract_css_links(doc')
            /\ js_sources' = extract_js_sources(doc')
            /\ res_i' = 1
            /\ css_outcomes' = <<>>
            /\ js_outcomes' = <<>>
            /\ css_files' = <<>>
            /\ js_files' = <<>>
            /\ resources' = None
            /\ res_pc' = "css"
            /\ h_pc' = "fetch"
            /\ UNCHANGED response
       ELSE /\ response' = "ok"
            /\ h_pc' = "done"
            /\ UNCHANGED res_rest
    /\ UNCHANGED <<crit_vars, css_run, css_vars, min_vars, ts_vars, opt_vars, html>>
    /\ UNCHANGED <<h_result, api_key, auth_header, endpoint, pages, h_i, results, images, downloads>>

\* optimize_bulk: for page in req.pages { match optimize_html(..) .. }
BulkPage ==
    /\ h_pc = "loop"
    /\ h_i <= Len(pages)
    /\ call_optimize_html(pages[h_i])
    /\ h_pc' = "page"
    /\ UNCHANGED <<crit_vars, css_run, css_vars, min_vars, ts_vars, res_vars>>
    /\ UNCHANGED <<h_result, api_key, auth_header, endpoint, pages, h_i, results, images, downloads>>

\* optimize_bulk: the arm Ok(result) of the match; optimize_html has no
\* return but Ok(..), so the arm Err(e) is never taken
BulkPageDone ==
    /\ h_pc = "page"
    /\ opt_pc = "done"
    /\ results' = Append(results, [success |-> TRUE,
                                   optimized_html |-> optimized,
                                   original_size |-> original_size,
                                   optimized_size |-> optimized_size])
    /\ h_i' = h_i + 1
    /\ h_pc' = "loop"
    /\ UNCHANGED <<crit_vars, css_run, css_vars, min_vars, ts_vars, res_vars, opt_vars>>
    /\ UNCHANGED <<h_result, api_key, auth_header, endpoint, pages, images, downloads>>

\* optimize_bulk: Ok(Json(BulkOptimizeResponse { success: true, results, .. }))
BulkRespond ==
    /\ h_pc = "loop"
    /\ h_i > Len(pages)
    /\ response' = "ok"
    /\ h_pc' = "done"
    /\ UNCHANGED <<crit_vars, css_run, css_vars, min_vars, ts_vars, opt_vars, res_rest, html>>
    /\ UNCHANGED <<h_result, api_key, auth_header, endpoint, pages, h_i, results, images, downloads>>

HandlerInit ==
    /\ api_key \in {None, Some("k")}
    /\ auth_header \in {None, Some("Bearer k"), Some("Bearer x"), Some("k")}
    /\ endpoint \in {"optimize", "optimize_bulk"}
    /\ IF endpoint = "optimize"
       THEN \E d \in HandlerPages, o \in RequestOptions :
              pages = <<OptimizeRequest(Render(d), o)>>
       ELSE pages \in BulkRequests(MaxPages)
    /\ h_i = 1
    /\ results = <<>>
    /\ images = None
    /\ downloads = <<>>
    /\ h_result = None
    /\ h_pc = "auth"
    /\ CssIdle
    /\ ResIdle
    /\ MinIdle
    /\ TsIdle
    /\ OptIdle
    /\ css_run = 1
    /\ CritIdle

HandlerNext ==
    \/ HandlerAuth
    \/ HandlerCheck
    \/ HandlerOptimized
    \/ HandlerWebp
    \/ HandlerResources
    \/ BulkPage
    \/ BulkPageDone
    \/ BulkRespond
    \/ PageNext
    \/ ResNext

SpecHandler == HandlerInit /\ [][HandlerNext]_vars

\* optimize: the response with the sizes taken from the document as it is
\* returned instead of from `result`
optimize_response_measured ==
    [success |-> TRUE,
     optimized_html |-> html,
     original_size |-> h_result[1].original_size,
     optimized_size |-> byte_len(html),
     reduction_percent |-> h_result[1].reduction_percent]

\* optimize: let response = OptimizeResponse { success: true, .. }
optimize_response ==
    [success |-> TRUE,
     optimized_html |-> html,
     original_size |-> h_result[1].original_size,
     optimized_size |-> h_result[1].optimized_size,
     reduction_percent |-> h_result[1].reduction_percent]

(***************************************************************************)
(* resource_optimizer.rs: extract_critical_css, its loop step by step      *)
(***************************************************************************)
OnlyCrit == UNCHANGED <<css_vars, css_run, res_vars, min_vars, ts_vars, opt_vars, h_vars>>

\* let is_critical = rule.contains("@font-face") || ..
is_critical(rule) == \E marker \in fold_markers : contains(rule, marker)

\* if critical.len() >= max_size { break; }
CritBreak ==
    /\ OnlyCrit
    /\ crit_pc = "loop"
    /\ crit_rules # <<>>
    /\ byte_len(crit_text) >= max_size
    /\ crit_pc' = "done"
    /\ UNCHANGED <<crit_css, crit_rules, crit_text>>

\* if rule.is_empty() { continue; }
CritEmpty ==
    /\ OnlyCrit
    /\ crit_pc = "loop"
    /\ crit_rules # <<>>
    /\ byte_len(crit_text) < max_size
    /\ trim(crit_rules[1]) = ""
    /\ crit_rules' = Tail(crit_rules)
    /\ UNCHANGED <<crit_css, crit_text, crit_pc>>

\* if is_critical { critical.push_str(&rule_with_brace); critical.push('\n'); }
CritKeep ==
    /\ OnlyCrit
    /\ crit_pc = "loop"
    /\ crit_rules # <<>>
    /\ byte_len(crit_text) < max_size
    /\ trim(crit_rules[1]) # ""
    /\ is_critical(trim(crit_rules[1]))
    /\ crit_text' = crit_text \o trim(crit_rules[1]) \o "}" \o "\n"
    /\ crit_rules' = Tail(crit_rules)
    /\ UNCHANGED <<crit_css, crit_pc>>

\* a rule without a fold marker
CritPass ==
    /\ OnlyCrit
    /\ crit_pc = "loop"
    /\ crit_rules # <<>>
    /\ byte_len(crit_text) < max_size
    /\ trim(crit_rules[1]) # ""
    /\ ~is_critical(trim(crit_rules[1]))
    /\ crit_rules' = Tail(crit_rules)
    /\ UNCHANGED <<crit_css, crit_text, crit_pc>>

\* the split is exhausted: the function returns `critical`
CritReturn ==
    /\ OnlyCrit
    /\ crit_pc = "loop"
    /\ crit_rules = <<>>
    /\ crit_pc' = "done"
    /\ UNCHANGED <<crit_css, crit_rules, crit_text>>

critical_css_loop ==
    \/ CritBreak
    \/ CritEmpty
    \/ CritKeep
    \/ CritPass
    \/ CritReturn

\* n characters of declarations
RECURSIVE Pad(_)
Pad(n) ==
    IF n = 0 THEN ""
    ELSE IF n % 2 = 0 THEN LET half == Pad(n \div 2) IN half \o half
    ELSE "a" \o Pad(n - 1)

\* one rule can be as long as the whole limit
LongRuleLen == max_size

CritSegments ==
    {"body{m:0}", ".x{c:r}", " \n", "@media s{.hero{c:d}}", "nav{c:d",
     "header{" \o Pad(LongRuleLen) \o "}"}

RECURSIVE CritSheets(_)
CritSheets(n) ==
    IF n = 0 THEN {""}
    ELSE CritSheets(n - 1) \cup {s \o t : s \in CritSheets(n - 1), t \in CritSegments}

CritInit ==
    /\ crit_css \in CritSheets(MaxRules)
    /\ crit_rules = split(crit_css, {"}"})
    /\ crit_text = ""
    /\ crit_pc = "loop"
    /\ CssIdle
    /\ ResIdle
    /\ MinIdle
    /\ TsIdle
    /\ OptIdle
    /\ HandlerIdle
    /\ css_run = 1

CritNext == critical_css_loop

SpecCritical == CritInit /\ [][CritNext]_vars

\* optimize_and_treeshake_css on documents with a style block around the
\* 100_000 byte limit: the block's CSS is one unused rule of n bytes
LargeBlock(n) ==
    Piece("<style>.unused{" \o Pad(n - 9) \o "}</style>", {"style"}, {})

\* a block of the limit in characters and more than the limit in bytes
WideBlock ==
    Piece("<style>.unused{é" \o Pad(large_block_limit - 10) \o "}</style>", {"style"}, {})

LargePieces ==
    {LargeBlock(large_block_limit), LargeBlock(large_block_limit + 1), WideBlock}

LargeDocs ==
    Pieces(2)
    \cup {d \o <<e>> : d \in Pieces(1), e \in LargePieces}
    \cup {<<e>> \o d : d \in Pieces(1), e \in LargePieces}

ShakeLargeInit ==
    /\ \E d \in LargeDocs :
           /\ ts_html = Render(d)
           /\ used_selectors = extract_used_selectors(d)
    /\ ts_i = 0
    /\ ts_result = ""
    /\ ts_count = 0
    /\ ts_pc = "scan"
    /\ css = ""
    /\ remaining = ""
    /\ result = ""
    /\ kept_rules = <<>>
    /\ removed_rules = <<>>
    /\ css_pc = "done"
    /\ ResIdle
    /\ MinIdle
    /\ OptIdle
    /\ HandlerIdle
    /\ css_run = 1
    /\ CritIdle

SpecShakeLarge == ShakeLargeInit /\ [][ShakeNext]_vars

\* the references discovery has to tell apart: stylesheets and scripts that
\* are remote, inline, data: URLs, or files the optimizer wrote before
DiscoverElements ==
    DocElements \cup
    {Element("<link rel=\"stylesheet\" href=\"/htmlwp/styles.min.css\">", "link", "stylesheet",
             "/htmlwp/styles.min.css"),
     Element("<link rel=\"stylesheet\" href=\"data:text/css,x\">", "link", "stylesheet",
             "data:text/css,x"),
     Element("<link rel=\"icon\" href=\"/i.ico\">", "link", "icon", "/i.ico"),
     Element("<script src=\"/htmlwp/scripts.min.js\"></script>", "script", "",
             "/htmlwp/scripts.min.js"),
     Element("<script src=\"data:text/javascript,x\"></script>", "script", "",
             "data:text/javascript,x"),
     Element("<script>inline()</script>", "script", "", "")}

DiscoverDocs ==
    {<<>>} \cup {<<e>> : e \in DiscoverElements}
           \cup {<<e, f>> : e \in DiscoverElements, f \in DiscoverElements}

\* optimize_external_resources up to its first loop:
\* let css_links = extract_css_links(html); the scripts are listed here too
\* since the document does not change between the two calls
ResDiscover ==
    /\ OnlyRes
    /\ res_pc = "discover"
    /\ css_links' = extract_css_links(doc)
    /\ js_sources' = extract_js_sources(doc)
    /\ res_pc' = "css"
    /\ UNCHANGED <<doc, options, html, res_i, css_outcomes, js_outcomes, css_files,
                   js_files, resources, response>>

DiscoverInit ==
    /\ CssIdle
    /\ MinIdle
    /\ TsIdle
    /\ doc \in DiscoverDocs
    /\ options \in [minify_css : BOOLEAN, minify_js : BOOLEAN]
    /\ html = Render(doc)
    /\ css_links = <<>>
    /\ js_sources = <<>>
    /\ res_i = 1
    /\ css_outcomes = <<>>
    /\ js_outcomes = <<>>
    /\ css_files = <<>>
    /\ js_files = <<>>
    /\ resources = None
    /\ response = "pending"
    /\ res_pc = "discover"
    /\ OptIdle
    /\ HandlerIdle
    /\ css_run = 1
    /\ CritIdle

DiscoverNext == ResDiscover \/ ResNext

SpecDiscover == DiscoverInit /\ [][DiscoverNext]_vars

(***************************************************************************)
(* Tree-shaking claims (checked under SpecCss)                             *)
(***************************************************************************)
\* a loop iteration that handled one complete rule
RuleStep == css_pc = "scan" /\ css_pc' = "scan"

\* every string the matcher derives from a selector and looks up in the index
DecomposedAtoms(sel) ==
    Range(parse_selector_parts(trim(sel))) \cup leading_tag(trim(sel))

KeepCondition(used, sel) ==
    \/ starts_with(sel, "@")
    \/ \E p \in {"::", ":hover", ":focus", ":active", ":before", ":after", ":nth",
                 ":first", ":last", ":not"} : contains(to_lowercase(sel), p)
    \/ DecomposedAtoms(sel) \cap used # {}
    \/ \E w \in whitelist_patterns : contains(to_lowercase(sel), w)

RECURSIVE RunsAfter(_, _)
RunsAfter(s, marker) ==
    LET at == find(s, marker)
    IN  IF at < 0 THEN {}
        ELSE LET name == first_run(SliceFrom(s, at + 1), NameChars)
             IN  (IF name = "" THEN {} ELSE {marker \o name})
                 \cup RunsAfter(SliceFrom(s, at + 1), marker)

TokenAtoms(token) ==
    RunsAfter(token, ".") \cup RunsAfter(token, "#")
    \cup (IF token # "" /\ is_alphabetic(SubSeq(token, 1, 1))
          THEN {to_lowercase(first_run(token, NameChars))} ELSE {})

SelectorAtoms(sel) ==
    UNION {TokenAtoms(t) : t \in Range(split(sel, WhitespaceChars \cup {">", "+", "~"}))}

\* C2: tree-shaking never drops a rule naming something present in the
\* document: if any atom of any token of the selector (class, id, or leading
\* element name, each the maximal run of [A-Za-z0-9_-]) is in the usage index,
\* the rule is kept (e.g. `.menu li,.nav` when only li is in the index).
C2_NoUsedRuleDropped ==
    \A i \in DOMAIN removed_rules :
        SelectorAtoms(removed_rules[i]) \cap used_selectors = {}

\* a stylesheet whose braces pair up (every prefix has depth >= 0, total 0)
BraceBalanced(s) ==
    /\ brace_count(s, Len(s)) = 0
    /\ \A n \in 1..Len(s) : brace_count(s, n) >= 0

\* C3: whatever the usage index, every `@media ...{...}` block, every rule
\* whose selector contains `:hover` and every rule whose selector contains
\* `wp-` is still present in the output of remove_unused_css (stated here for
\* stylesheets whose braces are balanced).
C3_AlwaysKeptCategories ==
    (css_pc = "done" /\ BraceBalanced(css)) =>
        /\ contains(css, "@media s{.a{c:d}}") => contains(result, "@media s{.a{c:d}}")
        /\ contains(css, ".x:hover{") => contains(result, ".x:hover{")
        /\ contains(css, ".wp-x{") => contains(result, ".wp-x{")

(***************************************************************************)
(* Consolidation claims (checked under SpecRes)                            *)
(***************************************************************************)
\* what a markup item is to discovery: a CSS reference, a JS reference, or neither
RefKind(e) ==
    IF e.name = "link" /\ e.rel = "stylesheet" /\ e.url # "" /\ ~starts_with(e.url, "data:")
       /\ ~contains(e.url, "/htmlwp/") THEN "css"
    ELSE IF e.name = "script" /\ e.url # "" /\ ~starts_with(e.url, "data:") THEN "js"
    ELSE "none"

\* the number of references of `kind` among the first i items of the document
Rank(i, kind) == Cardinality({k \in 1..i : RefKind(doc[k]) = kind})

\* the outcome of the reference at position i of the document
OutcomeAt(i) ==
    IF RefKind(doc[i]) = "css" THEN css_outcomes[Rank(i, "css")]
    ELSE IF RefKind(doc[i]) = "js" THEN js_outcomes[Rank(i, "js")]
    ELSE "none"

Optimized(i) == OutcomeAt(i) = "ok"
OptimizedOf(kind) == {i \in 1..Len(doc) : RefKind(doc[i]) = kind /\ Optimized(i)}

Count(h, p) == Cardinality({k \in 0..(Len(h) - Len(p)) : Slice(h, k, k + Len(p)) = p})

\* the document the commit is meant to leave: the first optimized reference
\* of each kind replaced by the combined tag, the later ones deleted, every
\* other item as it was
RECURSIVE ExpectedFrom(_)
ExpectedFrom(i) ==
    IF i > Len(doc) THEN ""
    ELSE (IF ~Optimized(i) THEN doc[i].text
          ELSE IF i # Min(OptimizedOf(RefKind(doc[i]))) THEN ""
          ELSE IF RefKind(doc[i]) = "css" THEN combined_link ELSE combined_script)
         \o ExpectedFrom(i + 1)

ExpectedDocument == inject_critical_css(ExpectedFrom(1), resources[1].critical_css)

CombinedTagOf(kind) == IF kind = "css" THEN combined_link ELSE combined_script

\* C4: after the rewrite, for each kind with at least one optimized resource
\* the document holds exactly one combined-asset tag of that kind, at the place
\* of the first-discovered optimized reference, and no tag of an optimized
\* reference remains.
C4_OneCombinedTagInPlace ==
    res_pc = "done" =>
        \A kind \in {"css", "js"} :
            OptimizedOf(kind) # {} =>
                /\ Count(html, CombinedTagOf(kind)) = 1
                /\ find(html, CombinedTagOf(kind)) = find(ExpectedDocument, CombinedTagOf(kind))
                /\ \A i \in OptimizedOf(kind) :
                       Count(html, doc[i].text)
                           = Cardinality({k \in 1..Len(doc) :
                                             doc[k].text = doc[i].text /\ ~Optimized(k)})

\* the texts of the items that own no optimized URL, in document order
RECURSIVE UntouchedFrom(_)
UntouchedFrom(i) ==
    IF i > Len(doc) THEN <<>>
    ELSE (IF Optimized(i) THEN <<>> ELSE <<doc[i].text>>) \o UntouchedFrom(i + 1)

\* the texts occur in h one after the other, in this order
RECURSIVE OrderedIn(_, _)
OrderedIn(h, texts) ==
    IF texts = <<>> THEN TRUE
    ELSE /\ find(h, texts[1]) >= 0
         /\ OrderedIn(SliceFrom(h, find(h, texts[1]) + Len(texts[1])), Tail(texts))

\* C5: the tag of every skipped or failed reference, and every tag that owns
\* no optimized URL, is still in the document after the rewrite, unchanged
\* and in the same relative order, also when the URL of an optimized
\* stylesheet is an attribute value of another tag.
C5_OtherTagsUntouched ==
    res_pc = "done" => OrderedIn(html, UntouchedFrom(1))

\* the bodies of the references that succeeded, in discovery order, joined
RECURSIVE JoinedBodies(_, _, _)
JoinedBodies(urls, outcomes, sep) ==
    IF urls = <<>> THEN ""
    ELSE IF outcomes[1] # "ok" THEN JoinedBodies(Tail(urls), Tail(outcomes), sep)
    ELSE IF "ok" \in Range(Tail(outcomes))
         THEN minified_body(urls[1]) \o sep \o JoinedBodies(Tail(urls), Tail(outcomes), sep)
    ELSE minified_body(urls[1])

\* C6: combined_css is the successful CSS contents joined with a newline and
\* combined_js the successful JS contents joined with ";\n", in discovery
\* order; a combined asset is absent exactly when nothing of its kind succeeded.
C6_CombinedInDiscoveryOrder ==
    resources # None =>
        /\ resources[1].combined_css =
               IF "ok" \in Range(css_outcomes)
               THEN Some(JoinedBodies(css_links, css_outcomes, "\n")) ELSE None
        /\ resources[1].combined_js =
               IF "ok" \in Range(js_outcomes)
               THEN Some(JoinedBodies(js_sources, js_outcomes, ";\n")) ELSE None

C6_Witness ==
    /\ res_pc = "done"
    /\ "failed" \in Range(css_outcomes)
    /\ resources[1].combined_css = None
    /\ resources[1].combined_js = Some("j();\nk()")

\* the urls at the positions whose outcome was success
RECURSIVE Succeeded(_, _)
Succeeded(urls, outcomes) ==
    IF urls = <<>> THEN <<>>
    ELSE (IF outcomes[1] = "ok" THEN <<urls[1]>> ELSE <<>>)
         \o Succeeded(Tail(urls), Tail(outcomes))

\* C7: whatever the outcomes, optimize_external_resources returns only after
\* every discovered resource was processed, also those after a failure;
\* css_files and js_files list exactly the successes, and the request ends
\* with the success response, never with an error.
C7_FailureStaysLocal ==
    /\ resources # None =>
           /\ Len(css_outcomes) = Len(css_links)
           /\ Len(js_outcomes) = Len(js_sources)
           /\ original_urls(resources[1].css_files) = Succeeded(css_links, css_outcomes)
           /\ original_urls(resources[1].js_files) = Succeeded(js_sources, js_outcomes)
    /\ res_pc = "done" => response = "ok" /\ resources # None

C7_Witness ==
    /\ res_pc = "done"
    /\ response = "ok"
    /\ css_outcomes = <<"failed", "ok">>
    /\ js_outcomes = <<"failed">>
    /\ original_urls(css_files) = <<"/b.css">>

(***************************************************************************)
(* Scanner claims (checked under SpecMinify and SpecShake)                 *)
(***************************************************************************)
EndsWith(s, t) == Len(t) <= Len(s) /\ SubSeq(s, Len(s) - Len(t) + 1, Len(s)) = t

VerbatimElements == {"pre", "script", "style"}

\* where the markup h first opens a comment or a verbatim element
FirstOpening(h) ==
    LET marks == {find(h, "<!--")}
                 \cup {find(to_lowercase(h), "<" \o e) : e \in VerbatimElements}
    IN  IF marks = {-1} THEN -1 ELSE Min(marks \ {-1})

\* the verbatim regions of the markup h as a parser delimits them: each
\* from its opening tag to the start of its closing tag, comments skipped
RECURSIVE VerbatimRegions(_)
VerbatimRegions(h) ==
    LET p == FirstOpening(h)
        rest == SliceFrom(h, p)
        e == CHOOSE x \in VerbatimElements : starts_with(to_lowercase(rest), "<" \o x)
        gt == find(rest, ">")
        closing == find(to_lowercase(SliceFrom(rest, gt + 1)), "</" \o e)
        comment_end == find(SliceFrom(rest, 4), "-->")
    IN  IF p < 0 THEN {}
        ELSE IF starts_with(rest, "<!--")
        THEN IF comment_end < 0 THEN {}
             ELSE VerbatimRegions(SliceFrom(rest, 4 + comment_end + 3))
        ELSE IF gt < 0 \/ closing < 0 THEN {}
        ELSE {SliceTo(rest, gt + 1 + closing + Len(e) + 2)}
             \cup VerbatimRegions(SliceFrom(rest, gt + 1 + closing))

\* C8: the content of every pre, script and style region, from its opening
\* tag to its closing tag, is in the output of minify_html character for
\* character as in the input, comment sequences inside it included.
C8_VerbatimRegionsCopied ==
    m_pc = "done" => \A region \in VerbatimRegions(m_html) : contains(m_result, region)

\* the positions of the <style opening tags that no </style> follows
UnclosedStyles(h) ==
    {p \in 0..(Len(h) - 6) :
        /\ to_lowercase(Slice(h, p, p + 6)) = "<style"
        /\ ~contains(to_lowercase(SliceFrom(h, p)), "</style>")}

\* C9: when a <style opening tag has no matching </style>, the tree-shaking
\* pass copies the document from that tag on as it is: nothing after the
\* opening tag is lost and no closing tag is added.
C9_UnclosedStyleCopied ==
    (ts_pc = "done" /\ UnclosedStyles(ts_html) # {}) =>
        EndsWith(ts_result, SliceFrom(ts_html, Min(UnclosedStyles(ts_html))))

\* the positions of the comment openers that no --> follows
UnterminatedComments(h) ==
    {p \in 0..(Len(h) - 4) :
        /\ Slice(h, p, p + 4) = "<!--"
        /\ ~contains(SliceFrom(h, p + 4), "-->")}

\* C10: when a comment opener has no later -->, minify_html copies the rest
\* of the document: every character after the opener is in the output.
C10_UnterminatedCommentCopied ==
    (m_pc = "done" /\ UnterminatedComments(m_html) # {}) =>
        EndsWith(m_result, SliceFrom(m_html, Min(UnterminatedComments(m_html)) + 4))

(***************************************************************************)
(* Minification claims (checked under SpecMinify)                          *)
(***************************************************************************)
\* a text with its whitespace runs collapsed to one space each; after_space
\* says that the text in front of it ended with whitespace
RECURSIVE Collapsed(_, _)
Collapsed(s, after_space) ==
    IF s = "" THEN ""
    ELSE IF Len(s) = 1
    THEN (IF ~is_whitespace(s) THEN s ELSE IF after_space THEN "" ELSE " ")
    ELSE Collapsed(SliceTo(s, Len(s) \div 2), after_space)
         \o Collapsed(SliceFrom(s, Len(s) \div 2),
                      is_whitespace(CharAt(s, (Len(s) \div 2) - 1)))

EndsWithSpace(s, before) == IF s = "" THEN before ELSE is_whitespace(CharAt(s, Len(s) - 1))

\* the minified form of the markup h as the contract describes it: comments
\* dropped, verbatim regions copied, whitespace runs elsewhere collapsed
RECURSIVE Minified(_, _)
Minified(h, after_space) ==
    LET p == FirstOpening(h)
        rest == SliceFrom(h, p)
        e == CHOOSE x \in VerbatimElements : starts_with(to_lowercase(rest), "<" \o x)
        closing == find(to_lowercase(rest), "</" \o e)
        comment_end == find(SliceFrom(rest, 4), "-->")
    IN  IF p < 0 THEN Collapsed(h, after_space)
        ELSE Collapsed(SliceTo(h, p), after_space)
             \o (IF starts_with(rest, "<!--")
                 THEN IF comment_end < 0 THEN ""
                      ELSE Minified(SliceFrom(rest, 4 + comment_end + 3),
                                    EndsWithSpace(SliceTo(h, p), after_space))
                 ELSE IF closing < 0 THEN rest
                 ELSE SliceTo(rest, closing) \o Minified(SliceFrom(rest, closing), FALSE))

\* the markup h without the content of its verbatim regions
RECURSIVE OutsideVerbatim(_)
OutsideVerbatim(h) ==
    LET opens == {find(to_lowercase(h), "<" \o e) : e \in VerbatimElements} \ {-1}
        p == Min(opens)
        rest == SliceFrom(h, p)
        e == CHOOSE x \in VerbatimElements : starts_with(to_lowercase(rest), "<" \o x)
        gt == find(rest, ">")
        closing == find(to_lowercase(rest), "</" \o e)
    IN  IF opens = {} THEN h
        ELSE IF gt < 0 \/ closing < 0 THEN SliceTo(h, p + Len(e) + 1)
        ELSE SliceTo(h, p + Len(e) + 1) \o OutsideVerbatim(SliceFrom(rest, closing))

\* C11: outside pre/script/style regions the output of minify_html has no
\* comment and no two adjacent whitespace characters: every whitespace run
\* became one space and every other character outside comments is kept, in
\* order.
C11_MinifiedOutsideVerbatim ==
    m_pc = "done" => OutsideVerbatim(m_result) = OutsideVerbatim(Minified(m_html, FALSE))

(***************************************************************************)
(* Tag pass claims (checked under SpecLazy and SpecDefer)                  *)
(***************************************************************************)
\* the document with loading="lazy" put after the tag name of every img tag
\* (any letter case) that has neither `loading=` nor `fetchpriority=`
RECURSIVE LazyLoaded(_)
LazyLoaded(h) ==
    LET p == find(to_lowercase(h), "<img")
        tag == Slice(h, p, tag_end(h, p))
        wanted == IF contains(tag, "loading=") \/ contains(tag, "fetchpriority=") THEN tag
                  ELSE SliceTo(tag, 4) \o " loading=\"lazy\"" \o SliceFrom(tag, 4)
    IN  IF p < 0 THEN h
        ELSE SliceTo(h, p) \o wanted \o LazyLoaded(SliceFrom(h, tag_end(h, p)))

LazyRun == PassLazy /\ opt_options.lazy_images

\* C12: add_lazy_loading puts loading="lazy" directly after the tag name of
\* every img tag, whatever its letter case, that contains neither `loading=`
\* nor `fetchpriority=`, and changes nothing else.
C12_LazyOnEveryPlainImg ==
    [][LazyRun => optimized' = LazyLoaded(optimized)]_vars

AttributeNames(tag) ==
    LET inner == IF EndsWith(tag, ">") THEN Slice(tag, 1, Len(tag) - 1) ELSE SliceFrom(tag, 1)
        tokens == split_whitespace(inner)
    IN  {to_lowercase(first_piece(tokens[k], {"="})) : k \in 2..Len(tokens)}

\* the document with defer put after the tag name of every script tag that
\* has a src attribute and neither a defer nor an async attribute
RECURSIVE Deferred(_)
Deferred(h) ==
    LET p == find(to_lowercase(h), "<script")
        tag == Slice(h, p, tag_end(h, p))
        wanted == IF "src" \in AttributeNames(tag)
                     /\ AttributeNames(tag) \cap {"defer", "async"} = {}
                  THEN SliceTo(tag, 7) \o " defer" \o SliceFrom(tag, 7)
                  ELSE tag
    IN  IF p < 0 THEN h
        ELSE SliceTo(h, p) \o wanted \o Deferred(SliceFrom(h, tag_end(h, p)))

DeferRun == PassDefer /\ opt_options.defer_js

\* C14: defer_scripts puts defer directly after the tag name of every script
\* tag with a src attribute and without a defer or async attribute, and
\* leaves inline scripts, deferred and async scripts, script bodies and all
\* other text as they are.
C14_DeferOnEveryExternalScript ==
    [][DeferRun => optimized' = Deferred(optimized)]_vars

(***************************************************************************)
(* At-rule and truncation claims (checked under SpecCss)                   *)
(***************************************************************************)
\* the text in front of the first `{` of s starts with `@`
AtHead(s) == find(s, "{") >= 0 /\ starts_with(trim(SliceTo(s, find(s, "{"))), "@")

\* the number of characters of s through the `}` that brings the nesting
\* depth, `depth` in front of character i, back to zero; 0 when there is none
RECURSIVE CloserFrom(_, _, _)
CloserFrom(s, i, depth) ==
    IF i > Len(s) THEN 0
    ELSE IF SubSeq(s, i, i) = "{" THEN CloserFrom(s, i + 1, depth + 1)
    ELSE IF SubSeq(s, i, i) = "}"
    THEN (IF depth = 1 THEN i ELSE CloserFrom(s, i + 1, depth - 1))
    ELSE CloserFrom(s, i + 1, depth)

\* through the brace that closes the first `{` of s
BlockEnd(s) == CloserFrom(s, find(s, "{") + 1, 0)

\* C15: an at-rule with a brace-balanced block is emitted from its head
\* through the brace that closes its first `{` exactly as in the input,
\* whatever the usage index, and the scan resumes right after that brace.
C15_AtRuleKeptVerbatim ==
    [][(css_pc = "scan" /\ AtHead(remaining) /\ BlockEnd(remaining) > 0) =>
          /\ result' = result \o SliceTo(remaining, BlockEnd(remaining))
          /\ remaining' = SliceFrom(remaining, BlockEnd(remaining))]_vars

\* the first `{` of s has no `}` after it
Unterminated(s) == find(s, "{") >= 0 /\ ~contains(SliceFrom(s, find(s, "{")), "}")

\* C16: at a rule whose `{` has no closing `}` remove_unused_css stops and
\* emits the whole remaining text unchanged; it returns a result for every
\* input and never crashes.
C16_TruncatedRuleCopied ==
    [][/\ css_pc' # "panic"
       /\ (css_pc = "scan" /\ Unterminated(remaining)) =>
              (result' = result \o remaining /\ css_pc' = "done")]_vars

(***************************************************************************)
(* Pipeline claims (checked under SpecPage)                                *)
(***************************************************************************)
\* C17: the document optimize_html returns is the end of a strict chain in
\* which each pass works on the output of the pass before it and hands its
\* own output on; so the document that leaves the SEO pass is the one that
\* pass produced, and the returned html has an alt attribute on every img
\* tag and rel="noopener noreferrer" on every external link: the alt-text
\* and link-hardening passes find nothing left to do on it.
C17_ChainReachesCaller ==
    /\ opt_pc = "schema" => optimized = seo_html
    /\ opt_pc = "done" => /\ add_alt_tags(optimized).count = 0
                          /\ fix_external_links(optimized).count = 0

(***************************************************************************)
(* Handler claims (checked under SpecHandler)                              *)
(***************************************************************************)
\* nothing of the pipeline, the image fetches or the resource fetches has run
NothingProcessed ==
    /\ OptIdle
    /\ CssIdle
    /\ MinIdle
    /\ TsIdle
    /\ res_pc = "done"
    /\ css_outcomes = <<>>
    /\ js_outcomes = <<>>
    /\ downloads = <<>>
    /\ results = <<>>

BulkItem(k) == results[k]

\* C19: when a bulk request is answered, there is one result per submitted
\* page, in submission order; a page with empty HTML is reported with
\* success=false and zero original and optimized sizes, and every other page
\* with success=true and its own nonzero sizes.
C19_BulkPartialFailure ==
    (endpoint = "optimize_bulk" /\ response = "ok") =>
        /\ Len(results) = Len(pages)
        /\ \A k \in 1..Len(pages) :
             IF pages[k].html = ""
             THEN /\ ~BulkItem(k).success
                  /\ BulkItem(k).original_size = 0
                  /\ BulkItem(k).optimized_size = 0
             ELSE /\ BulkItem(k).success
                  /\ BulkItem(k).original_size = byte_len(pages[k].html)
                  /\ BulkItem(k).original_size > 0
                  /\ BulkItem(k).optimized_size > 0

\* C20: an authenticated single-document request whose html is empty is
\* answered BadRequest: the handler ends at the check of req.html, no pass of
\* the pipeline runs, and no image and no resource is fetched for it.
C20_EmptyHtmlRejected ==
    (endpoint = "optimize" /\ authorized /\ pages[1].html = "") =>
        /\ NothingProcessed
        /\ images = None
        /\ response \in {"pending", "BadRequest"}
        /\ h_pc \in {"auth", "check", "done"}
        /\ h_pc = "done" => response = "BadRequest"

\* C20: an authenticated request with empty html that asks for WebP
\* conversion and resource optimization has been answered BadRequest
C20_Witness ==
    /\ endpoint = "optimize"
    /\ authorized
    /\ pages[1].html = ""
    /\ pages[1].options.convert_webp
    /\ pages[1].options.optimize_resources
    /\ h_pc = "done"
    /\ response = "BadRequest"

\* t tenths of a percent is (1 - optimized/original) * 100 rounded to one
\* decimal: no other multiple of a tenth is nearer to the exact value
IsRoundedReduction(t, orig_size, opt_size) ==
    2 * (IF 1000 * (orig_size - opt_size) >= t * orig_size
         THEN 1000 * (orig_size - opt_size) - t * orig_size
         ELSE t * orig_size - 1000 * (orig_size - opt_size)) <= orig_size

\* C21: in the response of every successful single-document call,
\* reduction_percent is (1 - optimized_size/original_size) * 100 rounded to
\* one decimal, for the original_size and optimized_size of the same
\* response; it is negative when the reported optimized size is the larger.
C21_ReductionPercent ==
    (endpoint = "optimize" /\ response = "ok") =>
        /\ optimize_response.original_size > 0
        /\ IsRoundedReduction(optimize_response.reduction_percent,
                              optimize_response.original_size,
                              optimize_response.optimized_size)
        /\ optimize_response.reduction_percent < 0
             <=> (1000 * (optimize_response.optimized_size
                          - optimize_response.original_size)) * 2
                 >= optimize_response.original_size

\* C21: a successful call whose document grew and whose images were rewritten
\* after the sizes were taken
C21_Witness ==
    /\ endpoint = "optimize"
    /\ response = "ok"
    /\ optimize_response.reduction_percent < 0
    /\ images # None
    /\ byte_len(html) # optimize_response.optimized_size

(***************************************************************************)
(* Resource claims, continued (checked under SpecRes)                      *)
(***************************************************************************)
\* the files of one list that were made for the same URL carry one filename
OneNamePerUrl(files) ==
    \A i, j \in 1..Len(files) :
        files[i].original_url = files[j].original_url => files[i].filename = files[j].filename

MarkedSegments ==
    SelectSeq(map_trim(split(crit_css, {"}"})),
              LAMBDA seg : seg # "" /\ \E marker \in fold_markers : contains(seg, marker))

RECURSIVE Emitted(_, _)
Emitted(segs, k) ==
    IF k = 0 THEN "" ELSE Emitted(segs, k - 1) \o segs[k] \o "}" \o "\n"

\* C24: extract_critical_css returns, in their order, exactly the
\* `}`-delimited segments of the sheet that contain a fold marker (as many of
\* them as fit), and what it returns is never longer than 14 KB.
C24_CriticalWithinLimit ==
    crit_pc = "done" =>
        /\ \E k \in 0..Len(MarkedSegments) : crit_text = Emitted(MarkedSegments, k)
        /\ byte_len(crit_text) <= max_size

(***************************************************************************)
(* Tree-shaking claims, large blocks (SpecShakeLarge)                      *)
(***************************************************************************)
OverLimit == {e \in LargePieces : byte_len(e.text) - 15 > large_block_limit}

\* the step taken at a <style tag: a block over the limit goes to the output
\* as it stands and leaves the count and the tree-shaker alone, any other
\* block is handed to the tree-shaker
LargeBlockStep ==
    (ts_pc = "scan" /\ ts_i < ts_len /\ at_style_tag) =>
        IF byte_len(css_content) > large_block_limit
        THEN /\ ts_result' = ts_result \o Slice(ts_html, ts_i, css_end) \o "</style>"
             /\ ts_count' = ts_count
             /\ ts_pc' = "scan"
             /\ UNCHANGED css_vars
        ELSE /\ ts_pc' = "css"
             /\ css' = css_content
             /\ css_pc' = "scan"

\* at the end of the pass: a block over the limit stands in the output as it
\* stood in the document and a document made of it alone counts no block; a
\* block of exactly the limit has lost its unused rule and is counted
LargeBlockResult ==
    ts_pc = "done" =>
        /\ \A e \in OverLimit :
               /\ starts_with(ts_html, e.text) => starts_with(ts_result, e.text)
               /\ ends_with(ts_html, e.text) => ends_with(ts_result, e.text)
               /\ ts_html = e.text => ts_count = 0
        /\ starts_with(ts_html, LargeBlock(large_block_limit).text) =>
               /\ starts_with(ts_result, "<style></style>")
               /\ ts_count >= 1

\* C25: a style block whose CSS is over 100 KB is emitted unchanged and is
\* not counted as optimized, while the blocks of the same document at or
\* under the limit are tree-shaken
C25_LargeBlockPassedThrough == []LargeBlockResult /\ [][LargeBlockStep]_vars

\* C25 witness: a small block tree-shaken and counted, followed by a block of
\* 100_001 bytes that went through unchanged
C25_Witness ==
    /\ ts_pc = "done"
    /\ ts_html = "<style>.hero{c:r}.unused{c:b}</style>" \o LargeBlock(large_block_limit + 1).text
    /\ ts_result = "<style></style>" \o LargeBlock(large_block_limit + 1).text
    /\ ts_count = 1

(***************************************************************************)
(* Resource claims: the skip policy (SpecRes)                              *)
(***************************************************************************)
names_cdn_host(url) == \E host \in skip_hosts : contains(to_lowercase(url), host)

\* every reference handled so far that names a CDN host was passed over
PassedOver(urls, outcomes) ==
    \A k \in 1..Len(outcomes) : names_cdn_host(urls[k]) => outcomes[k] = "skipped"

NoCdnFile(files) == \A k \in 1..Len(files) : ~names_cdn_host(files[k].original_url)

\* C26: a reference whose URL names a known CDN host is never fetched, is in
\* no file list and in no combined asset, and the references after it are
\* processed
C26_CdnNeverFetched ==
    /\ PassedOver(css_links, css_outcomes)
    /\ PassedOver(js_sources, js_outcomes)
    /\ NoCdnFile(css_files)
    /\ NoCdnFile(js_files)
    /\ resources # None =>
           /\ NoCdnFile(resources[1].css_files)
           /\ NoCdnFile(resources[1].js_files)
           /\ resources[1].combined_css = combined_css_of(resources[1].css_files)
           /\ resources[1].combined_js = combined_js_of(resources[1].js_files)
           /\ Len(css_outcomes) = Len(css_links)
           /\ Len(js_outcomes) = Len(js_sources)

\* C26 witness: a CDN stylesheet and a CDN script were passed over and the
\* local stylesheet after them was fetched and combined
C26_Witness ==
    /\ res_pc = "done"
    /\ css_links = <<"//unpkg.com/u.css", "/a.css">>
    /\ css_outcomes = <<"skipped", "ok">>
    /\ js_sources = <<"//unpkg.com/q.js">>
    /\ js_outcomes = <<"skipped">>
    /\ original_urls(resources[1].css_files) = <<"/a.css">>
    /\ resources[1].combined_css = Some(minified_body("/a.css"))
    /\ resources[1].combined_js = None

(***************************************************************************)
(* Discovery claims (SpecDiscover)                                         *)
(***************************************************************************)
\* a reference discovery must not return: no URL (an inline script), a data:
\* URL, or a file under the optimizer's own /htmlwp/ directory
Excluded(url) == url = "" \/ starts_with(url, "data:") \/ contains(url, "/htmlwp/")

StylesheetUrls(d) ==
    urls_of(SelectSeq(d, LAMBDA e :
        e.name = "link" /\ e.rel = "stylesheet" /\ ~Excluded(e.url)))

ScriptUrls(d) ==
    urls_of(SelectSeq(d, LAMBDA e : e.name = "script" /\ ~Excluded(e.url)))

\* C27: discovery returns the stylesheet hrefs and the script srcs in document
\* order, without inline scripts, data: URLs and already-local optimizer
\* output, for CSS and JS alike
C27_DiscoveryExclusions ==
    res_pc # "discover" =>
        /\ css_links = StylesheetUrls(doc)
        /\ js_sources = ScriptUrls(doc)

(***************************************************************************)
(* Reference location claims (SpecDiscover)                                *)
(***************************************************************************)
\* where the j-th item of the document d starts in its text
OffsetOf(d, j) == Len(Render(SubSeq(d, 1, j - 1)))

\* the opening brackets of the stylesheet links of d whose href is url
LinkOwners(d, url) ==
    {OffsetOf(d, j) : j \in {i \in 1..Len(d) :
        d[i].name = "link" /\ d[i].rel = "stylesheet" /\ d[i].url = url}}

\* the opening brackets of the scripts of d whose src is url
ScriptOwners(d, url) ==
    {OffsetOf(d, j) : j \in {i \in 1..Len(d) : d[i].name = "script" /\ d[i].url = url}}

LinksLocated ==
    \A k \in 1..Len(css_links) :
        find_link_tag_start(html, css_links[k]) \in LinkOwners(doc, css_links[k])

ScriptsLocated ==
    \A k \in 1..Len(js_sources) :
        find_script_tag_start(html, js_sources[k]) \in ScriptOwners(doc, js_sources[k])

\* C28: for every URL discovery returned, find_link_tag_start and
\* find_script_tag_start return a position, and it is the opening bracket of
\* the tag that owns the matched attribute
C28_ReferenceLocated ==
    res_pc \in {"css", "js"} => LinksLocated /\ ScriptsLocated

(***************************************************************************)
(* Claims of test_verification.rs (SpecVerify)                             *)
(***************************************************************************)
\* optimize_html has returned for a request with these two options on
ReturnedWith(a, b) == opt_pc = "done" /\ opt_options[a] /\ opt_options[b]

\* C29: with minify_css and minify_html on, the style rule
\* `.foo { color: red; }` of a class the document uses is in the output as
\* exactly `.foo{color:red}`
C29_InlineCssFullyMinified ==
    (/\ ReturnedWith("minify_css", "minify_html")
     /\ contains(opt_html, VerifyStyle.text)
     /\ contains(opt_html, VerifyDiv.text))
        => contains(optimized, ".foo{color:red}")

\* C30: with minify_html and minify_js on, no `// comment` line of an inline
\* script is left in the output of optimize_html (optimize_html never reads
\* minify_js, so the options of the model stand for both of its values)
C30_InlineJsCommentRemoved ==
    (/\ opt_pc = "done"
     /\ opt_options.minify_html
     /\ contains(opt_html, VerifyScript.text))
        => ~contains(optimized, "// comment")

(***************************************************************************)
(* SEO pass claims (SpecTags)                                               *)
(***************************************************************************)
\* the alt text of the claim: the file name of the src without path and
\* extension, `-` and `_` as spaces, first letter capitalised; "Image" when
\* there is no src or nothing is left of the file name
AltLabel(img_tag) ==
    LET src == attr(img_tag, "src")
        pieces == split(src[1], {"/"})
        filename == pieces[Len(pieces)]
        name == replace(replace(split(filename, {"."})[1], "-", " "), "_", " ")
    IN  IF src = None THEN "Image"
        ELSE IF name = "" THEN "Image"
        ELSE char_to_uppercase(CharAt(name, 0)) \o SliceFrom(name, 1)

LacksAlt(img_tag) == attr(img_tag, "alt") = None

WithAlt(img_tag) ==
    IF LacksAlt(img_tag)
    THEN "<img alt=\"" \o AltLabel(img_tag) \o "\"" \o SliceFrom(img_tag, 4)
    ELSE img_tag

\* the step of add_alt_tags: every img tag without alt gets the label, the
\* others stay, and the count is the number of tags that got one
AltStep ==
    (opt_pc = "seo_alt" /\ opt_pc' = "seo_meta") =>
        LET before == elements(seo_html, "img")
            after == elements(seo_html', "img")
        IN  /\ Len(after) = Len(before)
            /\ \A k \in 1..Len(before) :
                   /\ after[k] = WithAlt(before[k])
                   /\ ~contains(after[k], "alt=\"\"")
            /\ Len(seo_changes') - Len(seo_changes) =
                   IF \E k \in 1..Len(before) : LacksAlt(before[k]) THEN 1 ELSE 0
            /\ (\E k \in 1..Len(before) : LacksAlt(before[k])) =>
                   seo_changes'[Len(seo_changes')][1] =
                       Cardinality({k \in 1..Len(before) : LacksAlt(before[k])})

\* C31: add_alt_tags gives every img tag without alt an alt text derived from
\* the src file name, "Image" when none can be derived, never an empty one;
\* tags that have alt are unchanged and not counted
C31_AltTextNeverEmpty == [][AltStep]_vars

\* the hosts add_preconnect_hints knows
HintHosts == {"fonts.googleapis.com", "googletagmanager.com", "google-analytics.com"}

HasHint(h) == contains(h, "preconnect")

\* the step of add_preconnect_hints: hints go in right after <head> when a
\* known host is named and no hint is there yet; otherwise nothing changes
HintStep ==
    (opt_pc = "preconnect" /\ opt_pc' = "seo") =>
        LET pos == find(to_lowercase(optimized), "<head>")
            grown == Len(optimized') - Len(optimized)
        IN  IF (\E host \in HintHosts : contains(optimized, host)) /\ ~HasHint(optimized)
               /\ pos >= 0
            THEN /\ grown > 0
                 /\ SliceTo(optimized', pos + 6) = SliceTo(optimized, pos + 6)
                 /\ starts_with(SliceFrom(optimized', pos + 6), "<link rel=\"preconnect\"")
                 /\ SliceFrom(optimized', pos + 6 + grown) = SliceFrom(optimized, pos + 6)
            ELSE optimized' = optimized

\* C32: add_preconnect_hints inserts preconnect links, right after <head>,
\* only when the document names a known third-party host and has no
\* preconnect hint; a document that has hints already gets none added
C32_HintsOnlyOnce == [][HintStep]_vars

(***************************************************************************)
(* Offsets under multi-byte text (SpecCss)                                 *)
(***************************************************************************)
\* the step that takes an at-rule cuts it at its closing brace: the text
\* emitted is as many characters long as the offset found, and does not fail
AtRuleCutExact ==
    (css_pc = "scan" /\ remaining # "" /\ takes_at_rule) =>
        /\ css_pc' # "panic"
        /\ Len(result') = Len(result) + at_rule_end_pos(remaining)
        /\ Len(remaining') = Len(remaining) - at_rule_end_pos(remaining)

\* C33: the offsets at which the passes cut designate the intended character
\* also in text with multi-byte characters: at-rule extraction neither
\* truncates or shifts the span nor fails
C33_OffsetsValidOnMultiByte == [](css_pc # "panic") /\ [][AtRuleCutExact]_vars

(***************************************************************************)
(* Resource claims: what is accepted (SpecRes)                             *)
(***************************************************************************)
\* every file of the list is strictly smaller than what was fetched, and
\* what was fetched is within the limit
Accepted(files, limit) ==
    \A k \in 1..Len(files) :
        /\ files[k].optimized_size < files[k].original_size
        /\ files[k].original_size <= limit

\* the bytes saved by the files of the list
RECURSIVE SavedBy(_)
SavedBy(files) ==
    IF files = <<>> THEN 0
    ELSE files[1].original_size - files[1].optimized_size + SavedBy(Tail(files))

\* C34: every accepted CSS file has optimized_size < original_size <= 500,000
\* and every accepted JS file optimized_size < original_size <= 1,000,000;
\* with minification off nothing is accepted; only the accepted files are in
\* the combined assets and in the savings totals
C34_AcceptedFilesBounds ==
    /\ Accepted(css_files, 500000)
    /\ Accepted(js_files, 1000000)
    /\ ~options.minify_css => css_files = <<>>
    /\ ~options.minify_js => js_files = <<>>
    /\ Len(css_files) = Cardinality({k \in 1..Len(css_outcomes) : css_outcomes[k] = "ok"})
    /\ Len(js_files) = Cardinality({k \in 1..Len(js_outcomes) : js_outcomes[k] = "ok"})
    /\ resources # None =>
           /\ resources[1].css_files = css_files
           /\ resources[1].js_files = js_files
           /\ resources[1].combined_css = combined_css_of(css_files)
           /\ resources[1].combined_js = combined_js_of(js_files)
           /\ resources[1].total_css_savings = SavedBy(css_files)
           /\ resources[1].total_js_savings = SavedBy(js_files)

\* C34 witness: a stylesheet of exactly 500,000 bytes was accepted, a second
\* one was rejected, and the totals count the accepted one alone
C34_Witness ==
    /\ res_pc = "done"
    /\ css_outcomes = <<"ok", "failed">>
    /\ Len(css_files) = 1
    /\ css_files[1].original_size = 500000
    /\ resources[1].total_css_savings = 500000 - css_files[1].optimized_size
    /\ js_outcomes = <<"failed">>

(***************************************************************************)
(* Termination of the pipeline (SpecTags)                                  *)
(***************************************************************************)
\* a scanner that stays in its loop has moved on: the HTML minifier and the
\* style-block scanner by at least one character, remove_unused_css by
\* shortening what remains
ScanProgress ==
    /\ (m_pc = "scan" /\ m_pc' = "scan") => m_i' > m_i
    /\ (ts_pc = "scan" /\ ts_pc' = "scan") => ts_i' > ts_i
    /\ (css_pc = "scan" /\ css_pc' = "scan") => Len(remaining') < Len(remaining)

\* C35: on every input, also a truncated one, every loop iteration of the
\* scanner passes consumes a character or exits, and optimize_html runs to
\* completion: no pass ends it with a panic
C35_PipelineRunsToCompletion == [](opt_pc # "panic") /\ [][ScanProgress]_vars

(***************************************************************************)
(* Handler claims, continued (SpecHandler)                                 *)
(***************************************************************************)
\* C36: in every successful single-document response optimized_size is the
\* byte length of the optimized_html of that response, also when the WebP or
\* the resource rewrite changed the document after optimize_html returned
C36_SizeOfReturnedHtml ==
    (endpoint = "optimize" /\ response = "ok") =>
        optimize_response.optimized_size = byte_len(optimize_response.optimized_html)

(***************************************************************************)
(* The optimizations report (SpecTags)                                     *)
(***************************************************************************)
Occurrences(h, marker) ==
    Cardinality({i \in 0..(Len(h) - Len(marker)) : Slice(h, i, i + Len(marker)) = marker})

\* how many more times the marker is in the returned document than in the request
AddedMarks(marker) == Occurrences(optimized, marker) - Occurrences(opt_html, marker)

\* the number the report gives with this text, 0 without such an entry
ReportedCount(text) ==
    IF \E k \in 1..Len(optimizations) : optimizations[k][2] = text
    THEN optimizations[CHOOSE k \in 1..Len(optimizations) : optimizations[k][2] = text][1]
    ELSE 0

\* C37: every count of the report is the number of changes of that kind in
\* the returned document: lazy-loaded images, deferred scripts, preconnect
\* hints, alt tags, secured links; Schema.org types are reported only with a
\* JSON-LD script inserted
C37_ReportMatchesDocument ==
    opt_pc = "done" =>
        /\ ReportedCount("images lazy-loaded") = AddedMarks("loading=\"lazy\"")
        /\ ReportedCount("scripts deferred") = AddedMarks("<script defer")
        /\ ReportedCount("preconnect hints added") = AddedMarks("rel=\"preconnect\"")
        /\ ReportedCount("SEO: alt tags added") = AddedMarks("<img alt=\"")
        /\ ReportedCount("SEO: external links secured") = AddedMarks("rel=\"noopener noreferrer\"")
        /\ ReportedCount("Schema.org types added") > 0 => AddedMarks("application/ld+json") > 0

(***************************************************************************)
(* Resource claims: script order (SpecRes)                                 *)
(***************************************************************************)
\* the script elements of the document that discovery lists, in its order
ListedScripts(d) ==
    SelectSeq(d, LAMBDA e : e.name = "script" /\ e.url # "" /\ ~starts_with(e.url, "data:"))

\* the text occurs in h before position p
OccursBefore(h, text, p) ==
    \E q \in 0..(p - 1) : q + Len(text) <= p /\ Slice(h, q, q + Len(text)) = text

\* C38: a skipped or failed script that precedes an optimized script in the
\* original document still precedes the combined script tag in the rewritten
\* document
C38_ScriptOrderKept ==
    (res_pc = "done" /\ response = "ok" /\ contains(html, combined_script)) =>
        \A i, j \in 1..Len(js_sources) :
            (i < j /\ js_outcomes[i] \in {"skipped", "failed"} /\ js_outcomes[j] = "ok") =>
                OccursBefore(html, ListedScripts(doc)[i].text, find(html, combined_script))

(***************************************************************************)
(* Claims on the options (SpecVerify)                                      *)
(***************************************************************************)
\* the rules of the style blocks of the model that no element uses
UnusedRules == {".unused{c:b}"}

\* C39: with remove_unused_css off no rule is removed from an inline style
\* block, whatever the other options (optimize_html never reads
\* remove_unused_css, so the options of the model stand for both of its
\* values): a rule of the request is still in the returned document
C39_NoRemovalWhenSwitchedOff ==
    opt_pc = "done" =>
        \A rule \in UnusedRules :
            contains(opt_html, rule) => contains(optimized, SliceTo(rule, find(rule, "{") + 1))

====
